---------------------------- MODULE Spec2Model ----------------------------
(***************************************************************************)
(* A model of the preference-learning and scoring engine of ai-news-agent  *)
(* (src/src/ai_news_agent/preferences.py) and of the SQLite store it uses  *)
(* (src/src/ai_news_agent/db.py).                                          *)
(*                                                                         *)
(* Python floats are IEEE-754 doubles.  Every weight, delta and score of   *)
(* the model is a double, held exactly as a signed integer count of        *)
(* 2^-57 in three 24-bit limbs (TLC's integers are 32 bits wide), and      *)
(* every addition rounds to 53 significant bits, ties to even, as the      *)
(* hardware does: 0.1 + 0.1 + 0.1 is 0.30000000000000004 here too.         *)
(***************************************************************************)
EXTENDS Integers, Sequences, FiniteSets, TLC

-----------------------------------------------------------------------------
(* IEEE-754 doubles on the 2^-57 grid                                      *)

Limb == 2^24

\* bits needed to write n (0 for 0)
RECURSIVE BitLen(_)
BitLen(n) == IF n = 0 THEN 0 ELSE 1 + BitLen(n \div 2)

\* carry (or borrow) the limbs into range; \div rounds down, % is never negative
Norm(neg, h, m, l) ==
    LET m1 == m + (l \div Limb)
        h1 == h + (m1 \div Limb)
        z  == h1 = 0 /\ m1 % Limb = 0 /\ l % Limb = 0
    IN  [neg |-> neg /\ ~z, h |-> h1, m |-> m1 % Limb, l |-> l % Limb]

MagLt(a, b) ==
    \/ a.h < b.h
    \/ a.h = b.h /\ a.m < b.m
    \/ a.h = b.h /\ a.m = b.m /\ a.l < b.l

\* float("nan"): what pandas holds for a NULL of a numeric column
NaN == [neg |-> FALSE, h |-> -1, m |-> 0, l |-> 0]

\* a < b as Python compares two floats: no comparison with nan holds
FLt(a, b) ==
    IF a = NaN \/ b = NaN THEN FALSE
    ELSE IF a.neg /= b.neg THEN a.neg
    ELSE IF a.neg THEN MagLt(b, a) ELSE MagLt(a, b)

FLe(a, b) == a /= NaN /\ b /= NaN /\ ~FLt(b, a)

FNeg(a) == Norm(~a.neg, a.h, a.m, a.l)

\* the exact sum, before rounding
ExactAdd(a, b) ==
    IF a.neg = b.neg THEN Norm(a.neg, a.h + b.h, a.m + b.m, a.l + b.l)
    ELSE IF MagLt(a, b) THEN Norm(b.neg, b.h - a.h, b.m - a.m, b.l - a.l)
    ELSE Norm(a.neg, a.h - b.h, a.m - b.m, a.l - b.l)

\* the exact half of a value whose grid count is even
ExactHalf(a) ==
    Norm(a.neg, a.h \div 2, (a.h % 2) * (Limb \div 2) + a.m \div 2,
         (a.m % 2) * (Limb \div 2) + a.l \div 2)

\* round to 53 significant bits, ties to even
Round53(x) ==
    LET bits == IF x.h > 0 THEN 48 + BitLen(x.h)
                ELSE IF x.m > 0 THEN 24 + BitLen(x.m) ELSE BitLen(x.l)
        k    == bits - 53
    IN  IF k <= 0 THEN x
        ELSE LET unit == 2^k
                 r    == x.l % unit
                 odd  == (x.l \div unit) % 2 = 1
                 up   == 2 * r > unit \/ (2 * r = unit /\ odd)
             IN  Norm(x.neg, x.h, x.m, x.l - r + (IF up THEN unit ELSE 0))

\* a + b
FAdd(a, b) == IF a = NaN \/ b = NaN THEN NaN ELSE Round53(ExactAdd(a, b))

\* a * 2.0, a * 0.5, a * 1.5: the exact product, rounded
FMul2(a)  == Round53(ExactAdd(a, a))
FHalf(a)  == Round53(ExactHalf(a))
FMul15(a) == Round53(ExactAdd(a, ExactHalf(a)))

\* Python's min(a, b) and max(a, b): the first argument unless the second
\* is strictly smaller (larger)
PyMin(a, b) == IF FLt(b, a) THEN b ELSE a
PyMax(a, b) == IF FLt(a, b) THEN b ELSE a

Zero     == [neg |-> FALSE, h |-> 0, m |-> 0, l |-> 0]
One      == [neg |-> FALSE, h |-> 512, m |-> 0, l |-> 0]
Two      == [neg |-> FALSE, h |-> 1024, m |-> 0, l |-> 0]
Tenth    == [neg |-> FALSE, h |-> 51, m |-> 3355443, l |-> 3355444]
MinusOne == FNeg(One)

-----------------------------------------------------------------------------
(* Python values                                                           *)

\* an optional value: None, or the value itself
None    == << >>
Some(v) == << v >>

\* the score of a dashboard record whose column held a NULL: pandas reads the
\* column as floats and the NULL as nan
NotANumber == << "nan", "nan" >>

\* a str is the sequence of its characters; str.lower() on ASCII text
LowerChar(c) ==
    CASE c = "A" -> "a" [] c = "B" -> "b" [] c = "C" -> "c" [] c = "D" -> "d"
      [] c = "E" -> "e" [] c = "F" -> "f" [] c = "G" -> "g" [] c = "H" -> "h"
      [] c = "I" -> "i" [] c = "J" -> "j" [] c = "K" -> "k" [] c = "L" -> "l"
      [] c = "M" -> "m" [] c = "N" -> "n" [] c = "O" -> "o" [] c = "P" -> "p"
      [] c = "Q" -> "q" [] c = "R" -> "r" [] c = "S" -> "s" [] c = "T" -> "t"
      [] c = "U" -> "u" [] c = "V" -> "v" [] c = "W" -> "w" [] c = "X" -> "x"
      [] c = "Y" -> "y" [] c = "Z" -> "z" [] OTHER -> c

Lower(s) == [i \in 1..Len(s) |-> LowerChar(s[i])]

\* kw in text
Contains(text, kw) ==
    \E i \in 0..(Len(text) - Len(kw)) : SubSeq(text, i + 1, i + Len(kw)) = kw

\* f"{value}" of an optional str: None prints as "None"
Format(opt) == IF opt = None THEN <<"N", "o", "n", "e">> ELSE opt[1]

-----------------------------------------------------------------------------
(* The keyword tables, in the order the dicts list them                    *)

THEME_KEYWORDS ==
  << << "open_source",
       << <<"o", "p", "e", "n", " ", "s", "o", "u", "r", "c", "e">>,
          <<"g", "i", "t", "h", "u", "b">>,
          <<"a", "p", "a", "c", "h", "e">>,
          <<"m", "i", "t", " ", "l", "i", "c", "e", "n", "s", "e">>,
          <<"o", "p", "e", "n", "-", "s", "o", "u", "r", "c", "e">>,
          <<"o", "p", "e", "n", " ", "w", "e", "i", "g", "h", "t", "s">> >> >>,
     << "reasoning",
       << <<"r", "e", "a", "s", "o", "n", "i", "n", "g">>,
          <<"o", "1">>,
          <<"r", "1">>,
          <<"c", "h", "a", "i", "n", " ", "o", "f", " ", "t", "h", "o", "u", "g", "h", "t">>,
          <<"t", "h", "i", "n", "k", "i", "n", "g">>,
          <<"c", "o", "t">> >> >>,
     << "benchmarks",
       << <<"b", "e", "n", "c", "h", "m", "a", "r", "k">>,
          <<"s", "o", "t", "a">>,
          <<"p", "e", "r", "f", "o", "r", "m", "a", "n", "c", "e">>,
          <<"e", "v", "a", "l", "u", "a", "t", "i", "o", "n">>,
          <<"l", "e", "a", "d", "e", "r", "b", "o", "a", "r", "d">> >> >>,
     << "product_launch",
       << <<"l", "a", "u", "n", "c", "h">>,
          <<"a", "n", "n", "o", "u", "n", "c", "e">>,
          <<"a", "v", "a", "i", "l", "a", "b", "l", "e", " ", "n", "o", "w">>,
          <<"r", "e", "l", "e", "a", "s", "e">>,
          <<"i", "n", "t", "r", "o", "d", "u", "c", "i", "n", "g">> >> >>,
     << "funding",
       << <<"f", "u", "n", "d", "i", "n", "g">>,
          <<"r", "a", "i", "s", "e", "d">>,
          <<"s", "e", "r", "i", "e", "s", " ", "a">>,
          <<"s", "e", "r", "i", "e", "s", " ", "b">>,
          <<"i", "n", "v", "e", "s", "t", "m", "e", "n", "t">>,
          <<"v", "a", "l", "u", "a", "t", "i", "o", "n">> >> >>,
     << "safety",
       << <<"s", "a", "f", "e", "t", "y">>,
          <<"a", "l", "i", "g", "n", "m", "e", "n", "t">>,
          <<"h", "a", "r", "m", "f", "u", "l">>,
          <<"r", "e", "s", "p", "o", "n", "s", "i", "b", "l", "e", " ", "a", "i">>,
          <<"g", "u", "a", "r", "d", "r", "a", "i", "l", "s">> >> >>,
     << "multimodal",
       << <<"v", "i", "s", "i", "o", "n">>,
          <<"i", "m", "a", "g", "e">>,
          <<"v", "i", "d", "e", "o">>,
          <<"a", "u", "d", "i", "o">>,
          <<"m", "u", "l", "t", "i", "m", "o", "d", "a", "l">> >> >>,
     << "agents",
       << <<"a", "g", "e", "n", "t">>,
          <<"a", "u", "t", "o", "n", "o", "m", "o", "u", "s">>,
          <<"t", "o", "o", "l", " ", "u", "s", "e">>,
          <<"f", "u", "n", "c", "t", "i", "o", "n", " ", "c", "a", "l", "l", "i", "n", "g">>,
          <<"a", "g", "e", "n", "t", "i", "c">> >> >>,
     << "training",
       << <<"t", "r", "a", "i", "n", "i", "n", "g">>,
          <<"f", "i", "n", "e", "-", "t", "u", "n", "i", "n", "g">>,
          <<"r", "l", "h", "f">>,
          <<"p", "r", "e", "-", "t", "r", "a", "i", "n", "i", "n", "g">>,
          <<"d", "i", "s", "t", "i", "l", "l", "a", "t", "i", "o", "n">> >> >>,
     << "efficiency",
       << <<"e", "f", "f", "i", "c", "i", "e", "n", "t">>,
          <<"f", "a", "s", "t", "e", "r">>,
          <<"c", "h", "e", "a", "p", "e", "r">>,
          <<"o", "p", "t", "i", "m", "i", "z", "a", "t", "i", "o", "n">>,
          <<"q", "u", "a", "n", "t", "i", "z", "a", "t", "i", "o", "n">> >> >>,
     << "enterprise",
       << <<"e", "n", "t", "e", "r", "p", "r", "i", "s", "e">>,
          <<"b", "u", "s", "i", "n", "e", "s", "s">>,
          <<"b", "2", "b">>,
          <<"a", "p", "i">>,
          <<"p", "r", "o", "d", "u", "c", "t", "i", "o", "n">> >> >>,
     << "research",
       << <<"p", "a", "p", "e", "r">>,
          <<"a", "r", "x", "i", "v">>,
          <<"s", "t", "u", "d", "y">>,
          <<"r", "e", "s", "e", "a", "r", "c", "h">>,
          <<"n", "o", "v", "e", "l">> >> >> >>

TYPE_KEYWORDS ==
  << << "research_paper",
       << <<"a", "r", "x", "i", "v">>,
          <<"p", "a", "p", "e", "r">>,
          <<"w", "e", " ", "p", "r", "o", "p", "o", "s", "e">>,
          <<"w", "e", " ", "p", "r", "e", "s", "e", "n", "t">>,
          <<"s", "t", "u", "d", "y", " ", "s", "h", "o", "w", "s">> >> >>,
     << "technical_deep_dive",
       << <<"a", "r", "c", "h", "i", "t", "e", "c", "t", "u", "r", "e">>,
          <<"i", "m", "p", "l", "e", "m", "e", "n", "t", "a", "t", "i", "o", "n">>,
          <<"h", "o", "w", " ", "i", "t", " ", "w", "o", "r", "k", "s">>,
          <<"u", "n", "d", "e", "r", " ", "t", "h", "e", " ", "h", "o", "o", "d">>,
          <<"t", "e", "c", "h", "n", "i", "c", "a", "l">> >> >>,
     << "opinion_piece",
       << <<"o", "p", "i", "n", "i", "o", "n">>,
          <<"w", "h", "y", " ", "i">>,
          <<"t", "h", "o", "u", "g", "h", "t", "s", " ", "o", "n">>,
          <<"m", "y", " ", "t", "a", "k", "e">>,
          <<"r", "e", "f", "l", "e", "c", "t", "i", "o", "n">> >> >>,
     << "press_release",
       << <<"a", "n", "n", "o", "u", "n", "c", "e", "s">>,
          <<"p", "r", "o", "u", "d", " ", "t", "o">>,
          <<"e", "x", "c", "i", "t", "e", "d", " ", "t", "o">>,
          <<"t", "h", "r", "i", "l", "l", "e", "d", " ", "t", "o">>,
          <<"p", "l", "e", "a", "s", "e", "d", " ", "t", "o">> >> >>,
     << "tutorial",
       << <<"h", "o", "w", " ", "t", "o">>,
          <<"g", "u", "i", "d", "e">>,
          <<"t", "u", "t", "o", "r", "i", "a", "l">>,
          <<"s", "t", "e", "p", " ", "b", "y", " ", "s", "t", "e", "p">>,
          <<"w", "a", "l", "k", "t", "h", "r", "o", "u", "g", "h">> >> >>,
     << "news",
       << <<"b", "r", "e", "a", "k", "i", "n", "g">>,
          <<"r", "e", "p", "o", "r", "t", "e", "d", "l", "y">>,
          <<"a", "c", "c", "o", "r", "d", "i", "n", "g", " ", "t", "o">>,
          <<"s", "o", "u", "r", "c", "e", "s", " ", "s", "a", "y">> >> >> >>

INSIGHT_KEYWORDS ==
  << << "technical_details",
       << <<"a", "r", "c", "h", "i", "t", "e", "c", "t", "u", "r", "e">>,
          <<"p", "a", "r", "a", "m", "e", "t", "e", "r", "s">>,
          <<"t", "r", "a", "i", "n", "i", "n", "g">>,
          <<"i", "n", "f", "e", "r", "e", "n", "c", "e">>,
          <<"m", "o", "d", "e", "l", " ", "s", "i", "z", "e">> >> >>,
     << "practical_takeaways",
       << <<"y", "o", "u", " ", "c", "a", "n">>,
          <<"t", "r", "y", " ", "t", "h", "i", "s">>,
          <<"u", "s", "e", " ", "c", "a", "s", "e">>,
          <<"a", "p", "p", "l", "i", "c", "a", "t", "i", "o", "n">>,
          <<"h", "o", "w", " ", "t", "o", " ", "u", "s", "e">> >> >>,
     << "industry_analysis",
       << <<"m", "a", "r", "k", "e", "t">>,
          <<"c", "o", "m", "p", "e", "t", "i", "t", "i", "o", "n">>,
          <<"l", "a", "n", "d", "s", "c", "a", "p", "e">>,
          <<"t", "r", "e", "n", "d">>,
          <<"i", "n", "d", "u", "s", "t", "r", "y">> >> >>,
     << "hot_take",
       << <<"c", "o", "n", "t", "r", "o", "v", "e", "r", "s", "i", "a", "l">>,
          <<"u", "n", "p", "o", "p", "u", "l", "a", "r", " ", "o", "p", "i", "n", "i", "o", "n">>,
          <<"i", " ", "b", "e", "l", "i", "e", "v", "e">>,
          <<"a", "c", "t", "u", "a", "l", "l", "y">>,
          <<"h", "o", "t", " ", "t", "a", "k", "e">> >> >> >>
Keys(table) == [i \in 1..Len(table) |-> table[i][1]]

-----------------------------------------------------------------------------
(* Articles                                                                *)

\* what a crawler hands to save_articles: url, title, source, summary, score
NewOpenSource ==
    [url |-> "https://example.com/llm",
     title |-> <<"N", "e", "w", " ", "O", "p", "e", "n", " ", "S", "o", "u", "r", "c", "e", " ", "L", "L", "M", " ", "R", "e", "l", "e", "a", "s", "e", "d">>,
     source |-> "hackernews", summary |-> Some(<< >>), score |-> Some(100)]

HowToGuide ==
    [url |-> "https://example.com/guide",
     title |-> <<"H", "o", "w", " ", "t", "o", " ", "u", "s", "e", " ", "a", "g", "e", "n", "t", " ", "t", "r", "a", "i", "n", "i", "n", "g", " ", "b", "e", "n", "c", "h", "m", "a", "r", "k", " ", "t", "r", "e", "n", "d", " ", "o", "n", " ", "G", "i", "t", "H", "u", "b">>,
     source |-> "arxiv", summary |-> None, score |-> None]

HelloWorld ==
    [url |-> "https://example.com/hello",
     title |-> <<"H", "e", "l", "l", "o", " ", "W", "o", "r", "l", "d">>,
     source |-> "hackernews", summary |-> None, score |-> Some(0)]

Untagged ==
    [url |-> "https://example.com/plain",
     title |-> <<"H", "e", "l", "l", "o", " ", "W", "o", "r", "l", "d">>,
     source |-> "reddit", summary |-> Some(<< >>), score |-> Some(64)]

\* the url of NewOpenSource crawled again under another title and score
Reposted ==
    [url |-> NewOpenSource.url,
     title |-> <<"H", "e", "l", "l", "o", " ", "W", "o", "r", "l", "d">>,
     source |-> "reddit", summary |-> Some(<< >>), score |-> Some(32)]

Pool == {NewOpenSource, HowToGuide, HelloWorld, Untagged, Reposted}

-----------------------------------------------------------------------------
(* The classifier                                                          *)

\* the text the three classifiers search
ArticleText(article) ==
    Lower(article.title \o <<" ">> \o Format(article.summary))

\* the tags of the table with a keyword in the text, in the table's order
MatchKeywords(table, text) ==
    LET hit(e) == \E j \in 1..Len(e[2]) : Contains(text, e[2][j])
    IN  Keys(SelectSeq(table, hit))

\* the keyword pass over the articles of the pool, computed once and looked
\* up by title and summary
Texts        == {<< a.title, a.summary >> : a \in Pool}
TextOf(t)    == ArticleText([title |-> t[1], summary |-> t[2]])
ThemeMatch   == [t \in Texts |-> MatchKeywords(THEME_KEYWORDS, TextOf(t))]
TypeMatch    == [t \in Texts |-> MatchKeywords(TYPE_KEYWORDS, TextOf(t))]
InsightMatch == [t \in Texts |-> MatchKeywords(INSIGHT_KEYWORDS, TextOf(t))]

KeywordPass(table, memo, article) ==
    LET t == << article.title, article.summary >>
    IN  IF t \in DOMAIN memo THEN memo[t]
        ELSE MatchKeywords(table, ArticleText(article))

-----------------------------------------------------------------------------
(* The external classification service                                     *)

\* What one messages.create round trip comes to inside _classify_with_claude:
\*   "error"  the request raised, or the answer holds no text block
\*   "text"   the answer's text is not JSON, json.loads raises
\*   "list"   the text is a JSON array of the strings in items
\*   "dict"   the text is a JSON object with the keys in items
Reply(t, items) == [t |-> t, items |-> items]

\* a Python list of strs, as _classify_with_claude returns it
PyList(items) == [t |-> "list", items |-> items]

\* bool(value)
Truthy(value) == value.items /= << >>

\* s[:n]
Take(s, n) == SubSeq(s, 1, IF Len(s) < n THEN Len(s) ELSE n)

\* The article's summary is sliced before the request is built: a None
\* summary raises TypeError inside the try, [] is returned and no request
\* is sent.  Otherwise the request is sent and whatever json.loads makes of
\* the answer is returned as it is; every exception gives [].  external is
\* the exchange with the service: the category asked for and the reply.
_classify_with_claude(article, category, options, reply) ==
    IF article.summary = None
    THEN [value |-> PyList(<< >>), external |-> << >>]
    ELSE [value    |-> IF reply.t \in {"error", "text"} THEN PyList(<< >>) ELSE reply,
          external |-> << [category |-> category, reply |-> reply] >>]

\* an extract_themes that asks the service before it looks at its keywords
extract_themes_asking(article, reply) ==
    LET themes == KeywordPass(THEME_KEYWORDS, ThemeMatch, article)
        fb     == _classify_with_claude(article, "themes", Keys(THEME_KEYWORDS), reply)
    IN  IF themes /= << >>
        THEN [raised |-> "", tags |-> Take(themes, 3), external |-> fb.external]
        ELSE IF fb.value.t = "list"
        THEN [raised |-> "", tags |-> Take(fb.value.items, 3), external |-> fb.external]
        ELSE [raised |-> "TypeError", tags |-> << >>, external |-> fb.external]

\* extract_themes, classify_type, assess_insights give
\*   raised    "" when the call returns, else the exception's type
\*   tags      the tags returned (classify_type: the one tag)
\*   external  the exchanges with the external service
extract_themes(article, reply) ==
    LET themes == KeywordPass(THEME_KEYWORDS, ThemeMatch, article)
        fb     == _classify_with_claude(article, "themes", Keys(THEME_KEYWORDS), reply)
    IN  IF themes /= << >>
        THEN [raised |-> "", tags |-> Take(themes, 3), external |-> << >>]
        ELSE IF fb.value.t = "list"
        THEN [raised |-> "", tags |-> Take(fb.value.items, 3), external |-> fb.external]
        ELSE [raised |-> "TypeError", tags |-> << >>, external |-> fb.external]

classify_type(article, reply) ==
    LET matches == KeywordPass(TYPE_KEYWORDS, TypeMatch, article)
        fb      == _classify_with_claude(article, "type", Keys(TYPE_KEYWORDS), reply)
    IN  IF matches /= << >>
        THEN [raised |-> "", tags |-> << Head(matches) >>, external |-> << >>]
        ELSE IF ~Truthy(fb.value)
        THEN [raised |-> "", tags |-> << "news" >>, external |-> fb.external]
        ELSE IF fb.value.t = "list"
        THEN [raised |-> "", tags |-> << Head(fb.value.items) >>, external |-> fb.external]
        ELSE [raised |-> "KeyError", tags |-> << >>, external |-> fb.external]

assess_insights(article, reply) ==
    LET insights == KeywordPass(INSIGHT_KEYWORDS, InsightMatch, article)
        fb       == _classify_with_claude(article, "insights", Keys(INSIGHT_KEYWORDS), reply)
    IN  IF insights /= << >>
        THEN [raised |-> "", tags |-> Take(insights, 2), external |-> << >>]
        ELSE IF fb.value.t = "list"
        THEN [raised |-> "", tags |-> Take(fb.value.items, 2), external |-> fb.external]
        ELSE [raised |-> "TypeError", tags |-> << >>, external |-> fb.external]

-----------------------------------------------------------------------------
(* The store: the tables of db.py                                          *)

\* user_preferences with no row, and a row's two columns read back
NoPreferences == [k \in {} |-> [weight |-> Zero, sample_count |-> 0]]

Row(weight, sample_count) == [weight |-> weight, sample_count |-> sample_count]

\* a dict with one entry set
Put(dict, key, value) ==
    [k \in DOMAIN dict \cup {key} |-> IF k = key THEN value ELSE dict[k]]

\* a clamp that forgets the lower bound
ClampUpper(x) == PyMin(One, x)

\* max(-1.0, min(1.0, x))
Clamp(x) == PyMax(MinusOne, PyMin(One, x))

\* F of the value of v, with v computed once
Bind(v, F(_)) == CHOOSE r \in {F(x) : x \in {v}} : TRUE

\* SELECT weight, sample_count ... WHERE category = ? AND key = ?  .fetchone()
SelectRow(preferences, category, key) ==
    IF << category, key >> \in DOMAIN preferences
    THEN Some(preferences[<< category, key >>])
    ELSE None

\* what the statement after the SELECT left and how it ended
Written(raised, preferences) == [raised |-> raised, preferences |-> preferences]

\* a write that is skipped when the clamped weight did not move
WriteRowLazy(preferences, category, key, delta, existing) ==
    LET k == << category, key >>
    IN  IF existing /= None
        THEN IF Clamp(FAdd(existing[1].weight, delta)) = existing[1].weight
                \/ k \notin DOMAIN preferences
             THEN Written("", preferences)
             ELSE Written("", Put(preferences, k,
                                  Row(Clamp(FAdd(existing[1].weight, delta)),
                                      existing[1].sample_count + 1)))
        ELSE IF k \in DOMAIN preferences
        THEN Written("IntegrityError", preferences)
        ELSE Written("", Put(preferences, k, Row(Clamp(delta), 1)))

\* a write that stores the clamped delta in place of the sum
WriteRowReplace(preferences, category, key, delta, existing) ==
    LET k == << category, key >>
    IN  IF existing /= None
        THEN IF k \in DOMAIN preferences
             THEN Written("", Put(preferences, k,
                                  Row(Clamp(delta), existing[1].sample_count + 1)))
             ELSE Written("", preferences)
        ELSE IF k \in DOMAIN preferences
        THEN Written("IntegrityError", preferences)
        ELSE Written("", Put(preferences, k, Row(Clamp(delta), 1)))

\* a write whose UPDATE counts the sample in SQL (sample_count + 1) and
\* takes the weight from the row read
WriteRowCounting(preferences, category, key, delta, existing) ==
    LET k == << category, key >>
    IN  IF existing /= None
        THEN IF k \in DOMAIN preferences
             THEN Written("", Put(preferences, k,
                                  Row(Clamp(FAdd(existing[1].weight, delta)),
                                      preferences[k].sample_count + 1)))
             ELSE Written("", preferences)
        ELSE IF k \in DOMAIN preferences
        THEN Written("IntegrityError", preferences)
        ELSE Written("", Put(preferences, k, Row(Clamp(delta), 1)))

\* The statement after the SELECT, and the commit: an UPDATE that sets the
\* row to what was computed from the row read (no row is written if it is
\* gone), or an INSERT, which UNIQUE(category, key) refuses with
\* IntegrityError when the key has a row by now.
WriteRow(preferences, category, key, delta, existing) ==
    LET k == << category, key >>
    IN  IF existing /= None
        THEN IF k \in DOMAIN preferences
             THEN Written("", Put(preferences, k,
                                  Row(Clamp(FAdd(existing[1].weight, delta)),
                                      existing[1].sample_count + 1)))
             ELSE Written("", preferences)
        ELSE IF k \in DOMAIN preferences
        THEN Written("IntegrityError", preferences)
        ELSE Written("", Put(preferences, k, Row(Clamp(delta), 1)))

\* user_preferences after an update_preference(category, key, delta) that
\* no other connection wrote in between: the SELECT, then the write made
\* from the row it returned
update_preference(preferences, category, key, delta) ==
    WriteRow(preferences, category, key, delta,
             SelectRow(preferences, category, key)).preferences

\* the row of articles with this id, or None
get_article_by_id(rows, article_id) ==
    IF article_id \in 1..Len(rows) THEN Some(rows[article_id]) ELSE None

\* a save_articles that stores every article of the batch
RECURSIVE save_articles_all(_, _)
save_articles_all(rows, batch) ==
    IF batch = << >> THEN [rows |-> rows, saved |-> 0]
    ELSE LET a    == Head(batch)
             rest == save_articles_all(
                         Append(rows, [id |-> Len(rows) + 1, url |-> a.url,
                                       title |-> a.title, source |-> a.source,
                                       summary |-> a.summary, score |-> a.score]),
                         Tail(batch))
         IN  [rows |-> rest.rows, saved |-> rest.saved + 1]

\* articles after save_articles(batch), and the count it returns: a row
\* whose url is stored already is skipped (IntegrityError), ids count up
RECURSIVE save_articles(_, _)
save_articles(rows, batch) ==
    IF batch = << >> THEN [rows |-> rows, saved |-> 0]
    ELSE LET a    == Head(batch)
             dup  == \E i \in 1..Len(rows) : rows[i].url = a.url
             next == IF dup THEN rows
                     ELSE Append(rows, [id |-> Len(rows) + 1, url |-> a.url,
                                        title |-> a.title, source |-> a.source,
                                        summary |-> a.summary, score |-> a.score])
             rest == save_articles(next, Tail(batch))
         IN  [rows |-> rest.rows, saved |-> rest.saved + (IF dup THEN 0 ELSE 1)]

\* article_ratings with no row
NoRatings == << >>

\* an upsert that keeps the rating an article already has
save_rating_keep(rows, article_id, rating) ==
    IF \E i \in 1..Len(rows) : rows[i].article_id = article_id
    THEN rows
    ELSE Append(rows, [article_id |-> article_id, rating |-> rating])

\* the upsert of save_rating on the rows of article_ratings: the row of the
\* article takes the rating, or a new row is added
save_rating(rows, article_id, rating) ==
    IF \E i \in 1..Len(rows) : rows[i].article_id = article_id
    THEN [i \in 1..Len(rows) |->
             IF rows[i].article_id = article_id
             THEN [rows[i] EXCEPT !.rating = rating] ELSE rows[i]]
    ELSE Append(rows, [article_id |-> article_id, rating |-> rating])

-----------------------------------------------------------------------------
(* Learning                                                                *)

\* signal * 0.1 for signal 1.0 or -1.0
Delta(signal) == IF signal = One THEN Tenth ELSE FNeg(Tenth)

-----------------------------------------------------------------------------
(* Scoring                                                                 *)

\* 0.001, a double, counted in 2^-62
Milli == [neg |-> FALSE, h |-> 16, m |-> 6442450, l |-> 15837692]

\* base * 0.001 for an int base that is 0 or at least 32 (so that the
\* product is on the 2^-57 grid): the exact product in 2^-62, rounded to 53
\* bits, then counted in 2^-57
RECURSIVE TimesMilli(_)
TimesMilli(base) ==
    IF base < 128 THEN Norm(FALSE, base * Milli.h, base * Milli.m, base * Milli.l)
    ELSE LET hi == TimesMilli(base \div 128)
         IN  ExactAdd(Norm(FALSE, hi.h * 128, hi.m * 128, hi.l * 128),
                      TimesMilli(base % 128))

FMulMilli(base) ==
    LET r == Round53(TimesMilli(base))
    IN  Norm(FALSE, r.h \div 32, (r.h % 32) * (Limb \div 32) + r.m \div 32,
             (r.m % 32) * (Limb \div 32) + r.l \div 32)

\* `if pref and pref["sample_count"] >= n` for the preference of key k
Active(prefs, k, n) == k \in DOMAIN prefs /\ prefs[k].sample_count >= n

\* a source contribution that activates at 5 samples, like the tags
SourceScoreEarly(prefs, article, score) ==
    LET k == << "source", article.source >>
    IN  IF Active(prefs, k, 5) THEN FAdd(score, FMul2(prefs[k].weight)) ELSE score

\* a theme contribution that activates one sample early
RECURSIVE ThemeScoreEarly(_, _, _)
ThemeScoreEarly(prefs, themes, score) ==
    IF themes = << >> THEN score
    ELSE LET k == << "theme", Head(themes) >>
         IN  ThemeScoreEarly(prefs, Tail(themes),
                             IF Active(prefs, k, 4) THEN FAdd(score, prefs[k].weight)
                             ELSE score)

\* the five parts of score_article, each from the running score to the next
SourceScore(prefs, article, score) ==
    LET k == << "source", article.source >>
    IN  IF Active(prefs, k, 10) THEN FAdd(score, FMul2(prefs[k].weight)) ELSE score

RECURSIVE ThemeScore(_, _, _)
ThemeScore(prefs, themes, score) ==
    IF themes = << >> THEN score
    ELSE LET k == << "theme", Head(themes) >>
         IN  ThemeScore(prefs, Tail(themes),
                        IF Active(prefs, k, 5) THEN FAdd(score, prefs[k].weight)
                        ELSE score)

TypeScore(prefs, type, score) ==
    LET k == << "type", type >>
    IN  IF Active(prefs, k, 5) THEN FAdd(score, FMul15(prefs[k].weight)) ELSE score

RECURSIVE InsightScore(_, _, _)
InsightScore(prefs, insights, score) ==
    IF insights = << >> THEN score
    ELSE LET k == << "insight", Head(insights) >>
         IN  InsightScore(prefs, Tail(insights),
                          IF Active(prefs, k, 5) THEN FAdd(score, FHalf(prefs[k].weight))
                          ELSE score)

\* base = article.get("score") or 0; score += base * 0.001: the nan of a
\* dashboard record is true and gives nan
BaseScore(article, score) ==
    LET base == IF article.score = None THEN 0 ELSE article.score[1]
    IN  IF article.score = NotANumber THEN NaN
        ELSE FAdd(score, FMulMilli(base))

\* how score_article ended and what it returned
Scored(raised, value, classifier, external) ==
    [raised |-> raised, value |-> value,
     classifier |-> classifier, external |-> external]

\* score_article(article, preferences) with the replies the external
\* service would give; preferences is None (the store is read) or a dict
score_article(stored, article, preferences, rThemes, rType, rInsights) ==
    LET prefs    == IF preferences = None THEN stored ELSE preferences[1]
        s1       == SourceScore(prefs, article, Zero)
        themes   == extract_themes(article, rThemes)
        s2       == ThemeScore(prefs, themes.tags, s1)
        type     == classify_type(article, rType)
        s3       == TypeScore(prefs, type.tags[1], s2)
        insights == assess_insights(article, rInsights)
        s4       == InsightScore(prefs, insights.tags, s3)
    IN  IF themes.raised /= ""
        THEN Scored(themes.raised, Zero, << "extract_themes" >>, themes.external)
        ELSE IF type.raised /= ""
        THEN Scored(type.raised, Zero, << "extract_themes", "classify_type" >>,
                    themes.external \o type.external)
        ELSE IF insights.raised /= ""
        THEN Scored(insights.raised, Zero,
                    << "extract_themes", "classify_type", "assess_insights" >>,
                    themes.external \o type.external \o insights.external)
        ELSE Scored("", BaseScore(article, s4),
                    << "extract_themes", "classify_type", "assess_insights" >>,
                    themes.external \o type.external \o insights.external)

-----------------------------------------------------------------------------
(* The program's state                                                     *)

VARIABLES
    articles,          \* the articles table: the rows, row i has id i
    article_ratings,   \* the rows of the article_ratings table, oldest first
    user_preferences,  \* the user_preferences table:
                       \*   <<category, key>> -> [weight, sample_count]
    op,                \* the last call: its name and arguments, the exception
                       \*   it raised ("" when it returned), what it returned,
                       \*   the classifiers it ran and the exchanges it had
                       \*   with the external service
    calls,             \* the number of calls that returned or raised
    digests,           \* the rows of the digests table, row i has id i
    outbox,            \* the digest ids of the emails the SMTP server took
    session,           \* the dashboard's st.session_state
    workers,           \* the sessions that call learn_from_rating or
                       \*   update_preference, each with the call it is in
                       \*   (or made last), its position in it and the row
                       \*   its SELECT returned
    locked             \* a connection that a call left open in its
                       \*   transaction holds the write lock of the database

vars == << articles, article_ratings, user_preferences, op, calls,
           digests, outbox, session, workers, locked >>

\* what the calls on articles, ratings and preferences leave alone
others == << digests, outbox, session, workers, locked >>

\* a new dashboard session: the review screen at the first article, no
\* topic selected and no cluster; page is the set of buttons of the review
\* screen that the last script run made and left enabled
NewSession ==
    [review_index |-> 0, selected_topics |-> << >>, clusters |-> << >>, page |-> {}]

\* no session yet
NoWorkers == << >>

\* no digest saved, no email sent, a new session, no call in flight and
\* no connection left open
Quiet ==
    /\ digests = << >>
    /\ outbox = << >>
    /\ session = NewSession
    /\ workers = NoWorkers
    /\ locked = FALSE

\* the number of calls a behaviour of Spec makes
MaxCalls == 3

Call(name, arg, raised, result, classifier, external) ==
    [name |-> name, arg |-> arg, raised |-> raised, result |-> result,
     classifier |-> classifier, external |-> external]

\* init_db on a new file: the tables exist and are empty
Init ==
    /\ articles = << >>
    /\ article_ratings = NoRatings
    /\ user_preferences = NoPreferences
    /\ op = Call("init_db", None, "", None, << >>, << >>)
    /\ calls = 0
    /\ Quiet

-----------------------------------------------------------------------------
(* The operations                                                          *)

\* a statement that writes, run while another connection holds the write
\* lock: sqlite3 waits for the busy timeout and raises OperationalError
\* (database is locked); a statement that reads is not held up (WAL)
execute(held) == IF held THEN "OperationalError" ELSE ""

\* save_articles(batch): the first INSERT raises on a locked database, and
\* only IntegrityError is caught
SaveArticles(batch) ==
    LET r == save_articles(articles, batch)
    IN  /\ IF batch /= << >> /\ execute(locked) /= ""
           THEN /\ UNCHANGED articles
                /\ op' = Call("save_articles", batch, execute(locked), None,
                              << >>, << >>)
           ELSE /\ articles' = r.rows
                /\ op' = Call("save_articles", batch, "", r.saved, << >>, << >>)
        /\ calls' = calls + 1
        /\ UNCHANGED others
        /\ UNCHANGED << article_ratings, user_preferences >>

\* save_rating(article_id, rating): ValueError before the store is opened
\* for a rating that is not up, down or neutral; else the upsert, which
\* raises on a locked database
SaveRating(article_id, rating) ==
    /\ IF rating \notin {"up", "down", "neutral"}
       THEN /\ op' = Call("save_rating", [article_id |-> article_id, rating |-> rating],
                          "ValueError", None, << >>, << >>)
            /\ UNCHANGED article_ratings
       ELSE IF execute(locked) /= ""
       THEN /\ op' = Call("save_rating", [article_id |-> article_id, rating |-> rating],
                          execute(locked), None, << >>, << >>)
            /\ UNCHANGED article_ratings
       ELSE /\ op' = Call("save_rating", [article_id |-> article_id, rating |-> rating],
                          "", None, << >>, << >>)
            /\ article_ratings' = save_rating(article_ratings, article_id, rating)
    /\ calls' = calls + 1
    /\ UNCHANGED others
    /\ UNCHANGED << articles, user_preferences >>

-----------------------------------------------------------------------------
(* learn_from_rating and update_preference, statement by statement.  Each  *)
(* call of db.py opens its own connection and commits on its own, and     *)
(* the SELECT of update_preference is outside the transaction of its      *)
(* write, so the calls of other sessions can run in between.              *)

\* _connect(): sqlite3.connect raises OperationalError when the database
\* file cannot be opened; no caller in db.py or preferences.py catches it
_connect(available) == IF available THEN "" ELSE "OperationalError"

\* one update_preference(category, key, delta) a call is to make
Update(category, key, delta) == [category |-> category, key |-> key, delta |-> delta]

\* A session at the start of a call:
\*   name, arg  the call
\*   pc         where it stands: "lookup" before get_article_by_id,
\*              "classify" before the classifier of the stage, "select" and
\*              "write" in the update_preference of Head(todo), "rate"
\*              and "mark" before a save_rating of the review screen,
\*              "rerun" before the dashboard's next script run, "done"
\*              after
\*   stage      "source", "themes", "type", "insights" of learn_from_rating,
\*              "direct" for update_preference called on its own
\*   replies    what the external service answers for each category
\*   article    the row get_article_by_id returned, delta the signal * 0.1
\*   todo       the updates of the stage still to make
\*   existing   the row the SELECT returned
\*   caller     the button of the review screen that made the call
\*   before     the preference store when the call began
\*   seen       the preference store as the call's last statement left it
\*   alone      no other call changed the preference store between the
\*              statements of this one
Started(name, arg, pc, stage, replies, todo, caller) ==
    [name |-> name, arg |-> arg, pc |-> pc, stage |-> stage, replies |-> replies,
     article |-> None, delta |-> Zero, todo |-> todo, existing |-> None,
     classifier |-> << >>, external |-> << >>, raised |-> "", caller |-> caller,
     before |-> user_preferences, seen |-> user_preferences, alone |-> TRUE]

\* the session after a statement that left the store as given
Moved(w, preferences) ==
    [w EXCEPT !.alone = w.alone /\ user_preferences = w.seen, !.seen = preferences]

\* the session after its call returned or raised
Finished(w, raised, preferences) ==
    [Moved(w, preferences) EXCEPT
        !.pc = "done", !.raised = raised, !.stage = "", !.replies = None,
        !.article = None, !.delta = Zero, !.todo = << >>, !.existing = None,
        !.classifier = << >>, !.external = << >>]

\* the record of the call that session w made
Ran(w, raised) ==
    [name |-> w.name, arg |-> w.arg, raised |-> raised, result |-> None,
     classifier |-> w.classifier, external |-> w.external,
     before |-> w.before, alone |-> w.alone /\ user_preferences = w.seen]

\* session s makes no call: it is new or its last call is over
Idle(s) ==
    \/ s = Len(workers) + 1
    \/ s \in 1..Len(workers) /\ workers[s].pc = "done"

\* the sessions with s as given
Seat(s, w) ==
    IF s = Len(workers) + 1 THEN Append(workers, w) ELSE [workers EXCEPT ![s] = w]

\* the call of session s goes on
GoOn(s, w, preferences) ==
    /\ workers' = Seat(s, Moved(w, preferences))
    /\ user_preferences' = preferences
    /\ UNCHANGED << op, calls, session >>

\* the buttons of the review screen that a script run has made when the
\* handler of a button raises: the exception ends the run
MadeBefore(button) ==
    CASE button = "Dislike" -> {"Dislike"}
      [] button = "Neutral" -> {"Dislike", "Neutral"}
      [] OTHER              -> {"Dislike", "Neutral", "Like"}

\* the index the review screen moves to after a rating: the list read
\* before the rating was saved gives the length
Ahead(idx, n) == IF idx + 1 < n - 1 THEN idx + 1 ELSE n - 1

\* The call of session s returns or raises.  A call made by a button of
\* the review screen returns into the script run: an exception ends the
\* run, else the index moves and st.rerun() asks for the next run.
Return(s, w, raised, preferences) ==
    /\ user_preferences' = preferences
    /\ IF w.caller = None
       THEN /\ workers' = Seat(s, Finished(w, raised, preferences))
            /\ op' = Ran(w, raised)
            /\ calls' = calls + 1
            /\ UNCHANGED session
       ELSE IF raised /= ""
       THEN /\ workers' = Seat(s, Finished(w, raised, preferences))
            /\ op' = Call("render_review_mode", w.caller[1].arg, raised, None,
                          w.classifier, w.external)
            /\ calls' = calls + 1
            /\ session' = [session EXCEPT !.page = MadeBefore(w.caller[1].arg.button)]
       ELSE /\ workers' = Seat(s, [Moved(w, preferences) EXCEPT !.pc = "rerun"])
            /\ session' = [session EXCEPT
                             !.review_index = Ahead(w.caller[1].idx, w.caller[1].n)]
            /\ UNCHANGED << op, calls >>

\* a learn that takes a neutral rating for a dislike
LearnAny(s, available, article_id, rating, rThemes, rType, rInsights) ==
    /\ Idle(s)
    /\ GoOn(s, Started("learn_from_rating",
                       [article_id |-> article_id, rating |-> rating,
                        available |-> available],
                       "lookup", "source",
                       Some([themes |-> rThemes, type |-> rType, insights |-> rInsights]),
                       << >>, None),
            user_preferences)
    /\ UNCHANGED << articles, article_ratings, digests, outbox, locked >>

\* Session s calls learn_from_rating(article_id, rating), on a database
\* file that can be opened or not, with the replies the external service
\* will give for themes, type and insights: the neutral rating returns
\* before the store is opened
Learn(s, available, article_id, rating, rThemes, rType, rInsights) ==
    LET w == Started("learn_from_rating",
                     [article_id |-> article_id, rating |-> rating,
                      available |-> available],
                     "lookup", "source",
                     Some([themes |-> rThemes, type |-> rType, insights |-> rInsights]),
                     << >>, None)
    IN  /\ Idle(s)
        /\ IF rating = "neutral"
           THEN Return(s, w, "", user_preferences)
           ELSE GoOn(s, w, user_preferences)
        /\ UNCHANGED << articles, article_ratings, digests, outbox, locked >>

\* a lookup that reads article["source"] without looking at what was found
LookupUnchecked(s) ==
    LET w     == workers[s]
        found == get_article_by_id(articles, w.arg.article_id)
        delta == Delta(IF w.arg.rating = "up" THEN One ELSE MinusOne)
    IN  /\ w.pc = "lookup"
        /\ IF _connect(w.arg.available) /= ""
           THEN Return(s, w, _connect(w.arg.available), user_preferences)
           ELSE IF found = None
           THEN Return(s, w, "TypeError", user_preferences)
           ELSE GoOn(s, [w EXCEPT !.pc = "select", !.article = found, !.delta = delta,
                                  !.todo = << Update("source", found[1].source, delta) >>],
                     user_preferences)
        /\ UNCHANGED << articles, article_ratings, digests, outbox, locked >>

\* a lookup that catches what the store raises and returns
LookupQuiet(s) ==
    LET w     == workers[s]
        found == get_article_by_id(articles, w.arg.article_id)
        delta == Delta(IF w.arg.rating = "up" THEN One ELSE MinusOne)
    IN  /\ w.pc = "lookup"
        /\ IF _connect(w.arg.available) /= "" \/ found = None
           THEN Return(s, w, "", user_preferences)
           ELSE GoOn(s, [w EXCEPT !.pc = "select", !.article = found, !.delta = delta,
                                  !.todo = << Update("source", found[1].source, delta) >>],
                     user_preferences)
        /\ UNCHANGED << articles, article_ratings, digests, outbox, locked >>

\* article = db.get_article_by_id(article_id): the store's error is raised
\* to the caller, a missing article makes the call return; else the signal
\* is taken from the rating and the source is the first key to update
Lookup(s) ==
    LET w     == workers[s]
        found == get_article_by_id(articles, w.arg.article_id)
        delta == Delta(IF w.arg.rating = "up" THEN One ELSE MinusOne)
    IN  /\ w.pc = "lookup"
        /\ IF _connect(w.arg.available) /= ""
           THEN Return(s, w, _connect(w.arg.available), user_preferences)
           ELSE IF found = None
           THEN Return(s, w, "", user_preferences)
           ELSE GoOn(s, [w EXCEPT !.pc = "select", !.article = found, !.delta = delta,
                                  !.todo = << Update("source", found[1].source, delta) >>],
                     user_preferences)
        /\ UNCHANGED << articles, article_ratings, digests, outbox, locked >>

\* the stage after the updates of a stage are made
NextStage(stage) ==
    CASE stage = "source" -> "themes"
      [] stage = "themes" -> "type"
      [] stage = "type"   -> "insights"

\* themes = extract_themes(article), article_type = classify_type(article)
\* or insights = assess_insights(article): what the classifier raises ends
\* the call, the tags it returns are the keys to update next
Classify(s) ==
    LET w        == workers[s]
        r        == CASE w.stage = "themes"   -> extract_themes(w.article[1], w.replies[1].themes)
                      [] w.stage = "type"     -> classify_type(w.article[1], w.replies[1].type)
                      [] w.stage = "insights" -> assess_insights(w.article[1], w.replies[1].insights)
        name     == CASE w.stage = "themes"   -> "extract_themes"
                      [] w.stage = "type"     -> "classify_type"
                      [] w.stage = "insights" -> "assess_insights"
        category == CASE w.stage = "themes"   -> "theme"
                      [] w.stage = "type"     -> "type"
                      [] w.stage = "insights" -> "insight"
        ran      == [w EXCEPT !.classifier = Append(@, name),
                              !.external = @ \o r.external]
    IN  /\ w.pc = "classify"
        /\ IF r.raised /= ""
           THEN Return(s, ran, r.raised, user_preferences)
           ELSE IF r.tags /= << >>
           THEN GoOn(s, [ran EXCEPT !.pc = "select",
                                    !.todo = [i \in 1..Len(r.tags) |->
                                                 Update(category, r.tags[i], w.delta)]],
                     user_preferences)
           ELSE IF w.stage = "insights"
           THEN Return(s, ran, "", user_preferences)
           ELSE GoOn(s, [ran EXCEPT !.stage = NextStage(w.stage)], user_preferences)
        /\ UNCHANGED << articles, article_ratings, digests, outbox, locked >>

\* session s calls update_preference(category, key, delta)
UpdatePreference(s, category, key, delta) ==
    /\ Idle(s)
    /\ GoOn(s, Started("update_preference",
                       [category |-> category, key |-> key, delta |-> delta],
                       "select", "direct", None,
                       << Update(category, key, delta) >>, None),
            user_preferences)
    /\ UNCHANGED << articles, article_ratings, digests, outbox, locked >>

\* session s runs the SELECT of update_preference
Select(s) ==
    LET w == workers[s]
        u == Head(w.todo)
    IN  /\ w.pc = "select"
        /\ GoOn(s, [w EXCEPT !.pc = "write",
                             !.existing = SelectRow(user_preferences, u.category, u.key)],
                user_preferences)
        /\ UNCHANGED << articles, article_ratings, digests, outbox, locked >>

\* session s runs the UPDATE or INSERT of update_preference and commits;
\* what the statement raises ends the call, else the next update of the
\* stage follows, or the next classifier, or the return.  The statement
\* raises on a locked database.  conn.close() is reached only past the
\* commit: an INSERT that is refused leaves the connection open in the
\* transaction the INSERT began, with the write lock.
Write(s) ==
    LET w    == workers[s]
        u    == Head(w.todo)
        r    == IF execute(locked) /= ""
                THEN Written(execute(locked), user_preferences)
                ELSE WriteRow(user_preferences, u.category, u.key, u.delta, w.existing)
        rest == [w EXCEPT !.todo = Tail(w.todo), !.existing = None]
    IN  /\ w.pc = "write"
        /\ locked' = (locked \/ r.raised = "IntegrityError")
        /\ IF r.raised /= ""
           THEN Return(s, rest, r.raised, r.preferences)
           ELSE IF rest.todo /= << >>
           THEN GoOn(s, [rest EXCEPT !.pc = "select"], r.preferences)
           ELSE IF w.stage \in {"direct", "insights"}
           THEN Return(s, rest, "", r.preferences)
           ELSE GoOn(s, [rest EXCEPT !.pc = "classify", !.stage = NextStage(w.stage)],
                     r.preferences)
        /\ UNCHANGED << articles, article_ratings, digests, outbox >>

\* The connection that a refused INSERT left open is closed: Python frees
\* it with the frames of the exception, at once or when the garbage
\* collector runs, and the transaction is rolled back.
Collect ==
    /\ locked
    /\ locked' = FALSE
    /\ UNCHANGED << articles, article_ratings, user_preferences, op, calls,
                    digests, outbox, session, workers >>

\* reset_preferences(): DELETE FROM user_preferences, which raises on a
\* locked database
ResetPreferences ==
    /\ IF execute(locked) /= ""
       THEN /\ UNCHANGED user_preferences
            /\ op' = Call("reset_preferences", None, execute(locked), None,
                          << >>, << >>)
       ELSE /\ user_preferences' = NoPreferences
            /\ op' = Call("reset_preferences", None, "", None, << >>, << >>)
    /\ calls' = calls + 1
    /\ UNCHANGED others
    /\ UNCHANGED << articles, article_ratings >>

\* a score that counts the view as a sample of the article's source
ScoreCounting(article, preferences, rThemes, rType, rInsights) ==
    LET r == score_article(user_preferences, article, preferences,
                           rThemes, rType, rInsights)
    IN  /\ op' = Call("score_article", [article |-> article, preferences |-> preferences],
                      r.raised, r.value, r.classifier, r.external)
        /\ calls' = calls + 1
        /\ UNCHANGED others
        /\ user_preferences' = update_preference(user_preferences, "source",
                                                 article.source, Zero)
        /\ UNCHANGED << articles, article_ratings >>

\* score_article(article, preferences) for a stored article
Score(article, preferences, rThemes, rType, rInsights) ==
    LET r == score_article(user_preferences, article, preferences,
                           rThemes, rType, rInsights)
    IN  /\ op' = Call("score_article", [article |-> article, preferences |-> preferences],
                      r.raised, r.value, r.classifier, r.external)
        /\ calls' = calls + 1
        /\ UNCHANGED others
        /\ UNCHANGED << articles, article_ratings, user_preferences >>

\* extract_themes(article), classify_type(article), assess_insights(article)
\* called on their own; the result is the tags returned
ExtractThemes(article, reply) ==
    LET r == extract_themes(article, reply)
    IN  /\ op' = Call("extract_themes", [article |-> article],
                      r.raised, r.tags, << "extract_themes" >>, r.external)
        /\ calls' = calls + 1
        /\ UNCHANGED others
        /\ UNCHANGED << articles, article_ratings, user_preferences >>

ClassifyType(article, reply) ==
    LET r == classify_type(article, reply)
    IN  /\ op' = Call("classify_type", [article |-> article],
                      r.raised, r.tags, << "classify_type" >>, r.external)
        /\ calls' = calls + 1
        /\ UNCHANGED others
        /\ UNCHANGED << articles, article_ratings, user_preferences >>

AssessInsights(article, reply) ==
    LET r == assess_insights(article, reply)
    IN  /\ op' = Call("assess_insights", [article |-> article],
                      r.raised, r.tags, << "assess_insights" >>, r.external)
        /\ calls' = calls + 1
        /\ UNCHANGED others
        /\ UNCHANGED << articles, article_ratings, user_preferences >>

-----------------------------------------------------------------------------
(* The inputs                                                              *)

\* up, down, neutral, and a value outside the vocabulary
Ratings == {"up", "down", "neutral", "meh"}

Categories == {"source", "theme", "type", "insight"}

\* the replies of the external service: a failed request, text that is not
\* JSON, an empty array, an array of three labels, an array of four, an
\* object; and the ones tried for each category
ReplyError == Reply("error", << >>)
ReplyText  == Reply("text", << >>)
ReplyEmpty == Reply("list", << >>)
ReplyList  == Reply("list", << "opinion_piece", "hot_take", "technical_details" >>)
ReplyLong  == Reply("list", << "agents", "reasoning", "safety", "open_source" >>)
ReplyDict  == Reply("dict", << "type" >>)

Replies == {ReplyError, ReplyText, ReplyEmpty, ReplyList, ReplyLong, ReplyDict}

ThemeReplies   == {ReplyText, ReplyList}
TypeReplies    == {ReplyError, ReplyEmpty, ReplyList, ReplyDict}
InsightReplies == {ReplyError, ReplyEmpty, ReplyList, ReplyDict}

\* the deltas of direct update_preference calls: the learning step, a full
\* swing, and one beyond the clamp
Deltas == {Tenth, FNeg(Tenth), One, MinusOne, Two}

\* the keys direct update_preference calls touch
DirectKeys == {<< "source", "hackernews" >>, << "theme", "open_source" >>}

\* what the crawl hands to save_articles
Batches == {<< NewOpenSource >>, << NewOpenSource, HowToGuide >>,
            << HelloWorld, NewOpenSource >>,
            << HowToGuide, Reposted, NewOpenSource >>}

-----------------------------------------------------------------------------
(* Spec: the program on a new database file                                *)

\* the number of sessions that run at once
MaxWorkers == 2

\* the sessions in a call
Busy == {s \in 1..Len(workers) : workers[s].pc /= "done"}

\* a call may begin: MaxCalls bounds the calls made, in flight or over
Ready == calls + Cardinality(Busy) < MaxCalls

\* the session that makes the next call of learn_from_rating or
\* update_preference: the first one that is in no call, a new one while
\* there are fewer than MaxWorkers
Free ==
    {s \in 1..MaxWorkers : Idle(s) /\ \A t \in 1..(s - 1) : ~ Idle(t)}

DoSaveArticles ==
    Ready /\ \E batch \in Batches : SaveArticles(batch)

DoSaveRating ==
    Ready /\ \E id \in 1..(Len(articles) + 1), rating \in Ratings :
                 SaveRating(id, rating)

\* the ratings come from the first session, the dashboard's; SpecReset has
\* two sessions that learn at once
DoLearn ==
    Ready /\ \E id \in 1..(Len(articles) + 1), rating \in Ratings :
                 \E rThemes \in {ReplyError}, rType, rInsights \in {ReplyError, ReplyDict} :
                     Learn(1, TRUE, id, rating, rThemes, rType, rInsights)

DoUpdatePreference ==
    Ready /\ \E s \in Free, k \in DirectKeys, delta \in Deltas :
                 UpdatePreference(s, k[1], k[2], delta)

\* a session in a call runs the next statement of the call
DoLookup == \E s \in 1..Len(workers) : Lookup(s)

DoClassify == \E s \in 1..Len(workers) : Classify(s)

DoSelect == \E s \in 1..Len(workers) : Select(s)

DoWrite == \E s \in 1..Len(workers) : Write(s)

DoResetPreferences ==
    Ready /\ ResetPreferences

DoCollect == Collect

DoScore ==
    Ready /\ \E i \in 1..Len(articles) :
                 \E rThemes \in {ReplyError}, rType, rInsights \in {ReplyError, ReplyDict} :
                     Score(articles[i], None, rThemes, rType, rInsights)

Next ==
    \/ DoSaveArticles
    \/ DoSaveRating
    \/ DoLearn
    \/ DoUpdatePreference
    \/ DoLookup
    \/ DoClassify
    \/ DoSelect
    \/ DoWrite
    \/ DoCollect
    \/ DoResetPreferences
    \/ DoScore

Spec == Init /\ [][Next]_vars

-----------------------------------------------------------------------------
(* SpecStored: one call on a database file that holds the crawled articles *)
(* and the preferences earlier calls left                                  *)

\* update_preference(category, key, delta), n times over
RECURSIVE Repeat(_, _, _, _, _)
Repeat(preferences, category, key, delta, n) ==
    IF n = 0 THEN preferences
    ELSE Bind(update_preference(preferences, category, key, delta),
              LAMBDA p : Repeat(p, category, key, delta, n - 1))

\* The stores the call starts from: for each of five keys, no row or the row
\* that n updates by delta leave.  The counts lie on both sides of the
\* activation thresholds of score_article.
Absent == << 0, Zero >>

PriorStores ==
    { Repeat(Repeat(Repeat(Repeat(Repeat(NoPreferences,
          "source", "hackernews", hs[2], hs[1]),
          "theme", "open_source", ho[2], ho[1]),
          "theme", "product_launch", hp[2], hp[1]),
          "type", "news", hn[2], hn[1]),
          "insight", "hot_take", hh[2], hh[1]) :
      hs \in {Absent, << 9, One >>, << 10, Tenth >>, << 10, MinusOne >>},
      ho \in {Absent, << 4, One >>, << 8, Tenth >>},
      hp \in {Absent, << 5, One >>},
      hn \in {Absent, << 4, MinusOne >>, << 5, Tenth >>},
      hh \in {<< 4, One >>, << 5, FNeg(Tenth) >>} }

\* the snapshots score_article is handed in place of the store
Snapshots ==
    { Repeat(Repeat(NoPreferences, "source", "hackernews", Tenth, 10),
             "theme", "open_source", Tenth, 10) }

InitStored ==
    /\ articles = save_articles(<< >>, << NewOpenSource, HowToGuide, HelloWorld, Untagged >>).rows
    /\ article_ratings = NoRatings
    /\ user_preferences \in PriorStores
    /\ op = Call("init_db", None, "", None, << >>, << >>)
    /\ calls = 0
    /\ Quiet

\* no call was made yet
First == calls = 0 /\ workers = NoWorkers

StoredSaveRating ==
    First /\ \E id \in 1..(Len(articles) + 1), rating \in Ratings :
                 SaveRating(id, rating)

StoredLearn ==
    First /\ \E id \in 1..(Len(articles) + 1), rating \in Ratings :
                 \E rThemes \in ThemeReplies, rType \in TypeReplies,
                    rInsights \in InsightReplies :
                     Learn(1, TRUE, id, rating, rThemes, rType, rInsights)

StoredUpdatePreference ==
    First /\ \E category \in Categories, key \in {"hackernews", "open_source"},
                 delta \in Deltas : UpdatePreference(1, category, key, delta)

StoredResetPreferences ==
    First /\ ResetPreferences

StoredScore ==
    First /\ \E i \in 1..Len(articles),
                 preferences \in {None} \cup {Some(s) : s \in Snapshots} :
                 \E rThemes \in ThemeReplies, rType \in TypeReplies,
                    rInsights \in InsightReplies :
                     Score(articles[i], preferences, rThemes, rType, rInsights)

StoredExtractThemes ==
    First /\ \E i \in 1..Len(articles), reply \in Replies :
                 ExtractThemes(articles[i], reply)

StoredClassifyType ==
    First /\ \E i \in 1..Len(articles), reply \in Replies :
                 ClassifyType(articles[i], reply)

StoredAssessInsights ==
    First /\ \E i \in 1..Len(articles), reply \in Replies :
                 AssessInsights(articles[i], reply)

NextStored ==
    \/ StoredSaveRating
    \/ StoredLearn
    \/ StoredUpdatePreference
    \/ DoLookup
    \/ DoClassify
    \/ DoSelect
    \/ DoWrite
    \/ StoredResetPreferences
    \/ StoredScore
    \/ StoredExtractThemes
    \/ StoredClassifyType
    \/ StoredAssessInsights

SpecStored == InitStored /\ [][NextStored]_vars


-----------------------------------------------------------------------------
(* SpecReset: calls on a database file that holds the crawled articles and *)
(* learned preferences, reset_preferences among them                       *)

\* the stores the calls start from; each holds a preference, so the empty
\* store is there only after reset_preferences
LearnedStores ==
    { Repeat(Repeat(NoPreferences,
          "source", "hackernews", hs[2], hs[1]),
          "type", "news", hn[2], hn[1]) :
      hs \in {<< 10, Tenth >>, << 10, MinusOne >>},
      hn \in {Absent, << 5, Tenth >>} }

InitReset ==
    /\ articles = save_articles(<< >>, << NewOpenSource, HowToGuide, HelloWorld, Untagged >>).rows
    /\ article_ratings = NoRatings
    /\ user_preferences \in LearnedStores
    /\ op = Call("init_db", None, "", None, << >>, << >>)
    /\ calls = 0
    /\ Quiet

ThenReset ==
    Ready /\ ResetPreferences

ThenScore ==
    Ready /\ \E i \in 1..Len(articles), rType \in {ReplyEmpty, ReplyDict} :
                 Score(articles[i], None, ReplyText, rType, ReplyList)

ThenSaveRating ==
    Ready /\ \E rating \in {"up", "neutral"} : SaveRating(1, rating)

\* either session rates the third article, of hackernews
ThenLearn ==
    Ready /\ \E s \in Free, rating \in {"up", "down"} :
                 Learn(s, TRUE, 3, rating, ReplyText, ReplyEmpty, ReplyEmpty)

NextReset ==
    \/ ThenReset
    \/ ThenScore
    \/ ThenSaveRating
    \/ ThenLearn
    \/ DoLookup
    \/ DoClassify
    \/ DoSelect
    \/ DoWrite
    \/ DoCollect

SpecReset == InitReset /\ [][NextReset]_vars

-----------------------------------------------------------------------------
(* SpecLikes: the same article liked over and over on a new database file, *)
(* then scored against the preferences learned                             *)

MaxLearns == 10

InitLikes ==
    /\ articles = save_articles(<< >>, << NewOpenSource >>).rows
    /\ article_ratings = NoRatings
    /\ user_preferences = NoPreferences
    /\ op = Call("init_db", None, "", None, << >>, << >>)
    /\ calls = 0
    /\ Quiet

LikeAgain ==
    /\ calls < MaxLearns
    /\ \E rType, rInsights \in {ReplyError, ReplyList, ReplyDict} :
           Learn(1, TRUE, 1, "up", ReplyError, rType, rInsights)

ScoreLiked ==
    /\ calls = MaxLearns
    /\ \E rType, rInsights \in {ReplyError, ReplyList, ReplyDict} :
           Score(articles[1], Some(user_preferences), ReplyError, rType, rInsights)

NextLikes ==
    \/ LikeAgain
    \/ DoLookup
    \/ DoClassify
    \/ DoSelect
    \/ DoWrite
    \/ ScoreLiked

SpecLikes == InitLikes /\ [][NextLikes]_vars

-----------------------------------------------------------------------------
(* SpecRank: the ranking of scored candidates in generate_digest and in    *)
(* cluster_and_select_articles                                             *)

\* A scored candidate is the pair << a, s >> of the comprehension
\* [(a, score_article(a, preferences)) for a in articles]; the article a
\* is named by its place in the list of candidates.

\* a place that puts a candidate ahead of the earlier ones it ties with
PlaceAhead(scored, i) ==
    1 + Cardinality({j \in 1..Len(scored) :
                        \/ FLt(scored[i][2], scored[j][2])
                        \/ /\ j > i
                           /\ ~ FLt(scored[j][2], scored[i][2])
                           /\ ~ FLt(scored[i][2], scored[j][2])})

\* the place candidate i takes when the list is sorted: behind every
\* candidate of higher score and, the sort being stable, behind the earlier
\* candidates that compare equal to it
Place(scored, i) ==
    1 + Cardinality({j \in 1..Len(scored) :
                        \/ FLt(scored[i][2], scored[j][2])
                        \/ /\ j < i
                           /\ ~ FLt(scored[j][2], scored[i][2])
                           /\ ~ FLt(scored[i][2], scored[j][2])})

\* the list back to front
Reversed(list) == [i \in 1..Len(list) |-> list[Len(list) + 1 - i]] \o << >>

\* the key of candidate a is less than the key of candidate b
KeyLt(a, b) == FLt(a[2], b[2])

\* count_run: the length of the run the list begins with, either ascending
\* (no key less than the one before it) or strictly descending
RECURSIVE RunDown(_, _)
RunDown(list, n) ==
    IF n < Len(list) /\ KeyLt(list[n + 1], list[n]) THEN RunDown(list, n + 1) ELSE n

RECURSIVE RunUp(_, _)
RunUp(list, n) ==
    IF n < Len(list) /\ ~ KeyLt(list[n + 1], list[n]) THEN RunUp(list, n + 1) ELSE n

count_run(list) ==
    IF Len(list) < 2 THEN [n |-> Len(list), descending |-> FALSE]
    ELSE IF KeyLt(list[2], list[1])
    THEN [n |-> RunDown(list, 2), descending |-> TRUE]
    ELSE [n |-> RunUp(list, 2), descending |-> FALSE]

\* the place binarysort finds for the pivot between l and r:
\* p = l + ((r - l) >> 1); if pivot < *p then r = p else l = p + 1
RECURSIVE Bisect(_, _, _, _)
Bisect(list, pivot, l, r) ==
    IF l >= r THEN l
    ELSE LET p == l + (r - l) \div 2
         IN  IF KeyLt(pivot, list[p]) THEN Bisect(list, pivot, l, p)
             ELSE Bisect(list, pivot, p + 1, r)

\* binarysort: the candidates before start are in order, each one from
\* start on is inserted at the place Bisect finds
RECURSIVE binarysort(_, _)
binarysort(list, start) ==
    IF start > Len(list) THEN list
    ELSE LET l == Bisect(list, list[start], 1, start)
         IN  binarysort([i \in 1..Len(list) |->
                            IF i < l \/ i > start THEN list[i]
                            ELSE IF i = l THEN list[start] ELSE list[i - 1]],
                        start + 1)

\* list.sort(reverse=True) of CPython 3.11 on fewer than 64 candidates: the
\* list is reversed, its first run is made ascending and the rest is
\* inserted into it, and the result is reversed.  With a nan among the keys
\* the outcome is what these steps make of it.
ListSort(scored) ==
    LET back == Reversed(scored)
        run  == count_run(back)
        made == IF run.descending
                THEN Reversed(Take(back, run.n)) \o SubSeq(back, run.n + 1, Len(back))
                ELSE back
    IN  Reversed(binarysort(made, run.n + 1))

\* sorted(scored, key=lambda x: x[1], reverse=True).  Where every two keys
\* compare, the stable sort is descending by score with candidates of equal
\* score in the order they came in.
Sorted(scored) ==
    LET place == [i \in 1..Len(scored) |-> Place(scored, i)] \o << >>
    IN  IF \E i \in 1..Len(scored) : scored[i][2] = NaN
        THEN ListSort(scored)
        ELSE [p \in 1..Len(scored) |->
                 scored[CHOOSE i \in 1..Len(scored) : place[i] = p]] \o << >>

\* [a for a, s in sorted_articles[:n]]
TopArticles(scored, n) ==
    LET top == Take(Sorted(scored), n)
    IN  [i \in 1..Len(top) |-> top[i][1]]

DigestTop   == 50
LinkedInTop == 25

\* the ranking step of generate_digest
GenerateDigest(scored) ==
    /\ op' = Call("generate_digest", [scored |-> scored], "",
                  TopArticles(scored, DigestTop), << >>, << >>)
    /\ calls' = calls + 1
    /\ UNCHANGED others
    /\ UNCHANGED << articles, article_ratings, user_preferences >>

\* the ranking step of cluster_and_select_articles
ClusterAndSelect(scored) ==
    /\ op' = Call("cluster_and_select_articles", [scored |-> scored], "",
                  TopArticles(scored, LinkedInTop), << >>, << >>)
    /\ calls' = calls + 1
    /\ UNCHANGED others
    /\ UNCHANGED << articles, article_ratings, user_preferences >>

\* the scores of the candidates: 0.0, 0.064, 0.1, 2.1 and -0.1
RankScores ==
    {Zero, FMulMilli(64), FMulMilli(100), FAdd(Two, FMulMilli(100)), FNeg(Tenth)}

\* the candidate lists: n candidates whose scores repeat a run of three
Over == 2

Candidates(n) ==
    { [i \in 1..n |-> << i, run[((i - 1) % 3) + 1] >>] :
        run \in [1..3 -> RankScores] }

DoGenerateDigest ==
    First /\ \E n \in (DigestTop - Over)..(DigestTop + Over) :
                 \E scored \in Candidates(n) : GenerateDigest(scored)

DoClusterAndSelect ==
    First /\ \E n \in (LinkedInTop - Over)..(LinkedInTop + Over) :
                 \E scored \in Candidates(n) : ClusterAndSelect(scored)

NextRank ==
    \/ DoGenerateDigest
    \/ DoClusterAndSelect

SpecRank == Init /\ [][NextRank]_vars

-----------------------------------------------------------------------------
(* The store out of reach                                                  *)

\* score_article when the store may be out of reach: the store is opened
\* only when no snapshot is handed in (get_all_preferences)
score_article_with(available, stored, article, preferences, rThemes, rType, rInsights) ==
    IF preferences = None /\ _connect(available) /= ""
    THEN [raised |-> _connect(available), value |-> None,
          classifier |-> << >>, external |-> << >>]
    ELSE score_article(stored, article, preferences, rThemes, rType, rInsights)

ScoreWith(available, article, preferences, rThemes, rType, rInsights) ==
    LET r == score_article_with(available, user_preferences, article, preferences,
                                rThemes, rType, rInsights)
    IN  /\ op' = Call("score_article",
                      [article |-> article, preferences |-> preferences,
                       available |-> available],
                      r.raised, r.value, r.classifier, r.external)
        /\ calls' = calls + 1
        /\ UNCHANGED others
        /\ UNCHANGED << articles, article_ratings, user_preferences >>

OutageLearn ==
    First /\ \E available \in BOOLEAN, id \in 1..(Len(articles) + 1),
                rating \in Ratings :
                 \E rThemes \in ThemeReplies, rType \in {ReplyEmpty, ReplyList},
                    rInsights \in {ReplyEmpty, ReplyList} :
                     Learn(1, available, id, rating, rThemes, rType, rInsights)

OutageScore ==
    First /\ \E available \in BOOLEAN, i \in 1..Len(articles),
                 preferences \in {None} \cup {Some(s) : s \in Snapshots} :
                 \E rThemes \in ThemeReplies, rType \in {ReplyEmpty, ReplyList},
                    rInsights \in {ReplyEmpty, ReplyList} :
                     ScoreWith(available, articles[i], preferences,
                               rThemes, rType, rInsights)

NextOutage ==
    \/ OutageLearn
    \/ DoLookup
    \/ DoClassify
    \/ DoSelect
    \/ DoWrite
    \/ OutageScore

SpecOutage == InitStored /\ [][NextOutage]_vars

-----------------------------------------------------------------------------
(* SpecDigest: the digest pipeline and the LinkedIn selection              *)

\* config.ANTHROPIC_MODEL when the environment does not set it
DefaultModel == "claude-sonnet-4-5-20250929"

FALLBACK_MODELS == << "claude-sonnet-4-6", "claude-3-5-sonnet-20241022" >>

\* How a request to the service ends: "ok" with a text, "APIError" for what
\* the client raises as anthropic.APIError (connection, status), and
\* "IndexError" for a message without content (message.content[0]).
Outcomes == {"ok", "APIError", "IndexError"}

\* the loop of _synthesize_with_fallback from the i-th model on; outcomes[i]
\* is how the i-th request ends.  An APIError is raised again when the
\* model that failed is equal to the last of the list, any other exception
\* is not caught.
RECURSIVE TryModels(_, _, _)
TryModels(models, outcomes, i) ==
    IF i > Len(models)
    THEN [raised |-> "RuntimeError", model |-> None, tried |-> << >>]
    ELSE IF outcomes[i] = "ok"
    THEN [raised |-> "", model |-> Some(models[i]), tried |-> << models[i] >>]
    ELSE IF outcomes[i] /= "APIError" \/ models[i] = models[Len(models)]
    THEN [raised |-> outcomes[i], model |-> None, tried |-> << models[i] >>]
    ELSE LET rest == TryModels(models, outcomes, i + 1)
         IN  [rest EXCEPT !.tried = << models[i] >> \o @]

\* _synthesize_with_fallback for config.ANTHROPIC_MODEL = configured
_synthesize_with_fallback(configured, outcomes) ==
    TryModels(<< configured >> \o FALLBACK_MODELS, outcomes, 1)

\* _group_by_source: the sources of the articles in the order they first
\* appear
RECURSIVE Sources(_)
Sources(list) ==
    IF list = << >> THEN << >>
    ELSE LET front == Sources(Take(list, Len(list) - 1))
             s     == list[Len(list)].source
         IN  IF \E i \in 1..Len(front) : front[i] = s THEN front
             ELSE Append(front, s)

\* synthesize(articles): one request per source, a failed one replaced by
\* an error text, then the final synthesis.  The content is the model that
\* answered and, for each source, whether its summary was synthesized.
synthesize(list, service) ==
    LET groups == Sources(list)
        final  == _synthesize_with_fallback(service.model, service.outcomes)
    IN  [raised   |-> final.raised,
         content  |-> IF final.raised /= "" THEN None
                      ELSE Some([model |-> final.model[1],
                                 summaries |-> [i \in 1..Len(groups) |->
                                     << groups[i], groups[i] \notin service.failing >>]]),
         requests |-> [i \in 1..Len(groups) |-> groups[i]] \o final.tried]

\* ORDER BY score DESC NULLS LAST, crawled_at DESC: crawled_at is the time
\* of the INSERT, so a later row has a higher id
Before(a, b) ==
    \/ a.score /= None /\ b.score = None
    \/ a.score /= None /\ b.score /= None /\ a.score[1] > b.score[1]
    \/ a.score = b.score /\ a.id > b.id

\* get_articles_since(since): the rows crawled at or after since, which is
\* given as the id of the first row that late
get_articles_since(rows, since) ==
    LET late == SelectSeq(rows, LAMBDA r : r.id >= since)
    IN  [p \in 1..Len(late) |->
            late[CHOOSE i \in 1..Len(late) :
                    Cardinality({j \in 1..Len(late) : Before(late[j], late[i])}) = p - 1]]
        \o << >>

\* [(a, score_article(a, preferences)) for a in articles]: the calls in
\* order, each with the snapshot handed in
ScoreEach(list, preferences, service) ==
    [i \in 1..Len(list) |->
        score_article(preferences, list[i], Some(preferences),
                      service.themes, service.type, service.insights)] \o << >>

\* the exception of the first call of ScoreEach that raised, "" if none did
FirstRaised(results) ==
    IF \A i \in 1..Len(results) : results[i].raised = "" THEN ""
    ELSE results[CHOOSE i \in 1..Len(results) :
                    /\ results[i].raised /= ""
                    /\ \A j \in 1..(i - 1) : results[j].raised = ""].raised

\* the n best of the list by score_article, best first
Ranked(list, results, n) ==
    LET top == TopArticles([i \in 1..Len(list) |-> << i, results[i].value >>], n)
    IN  [i \in 1..Len(top) |-> list[top[i]]]

\* the n best of the list by score_article, none if a call raised
Best(list, results, n) ==
    IF FirstRaised(results) /= "" THEN << >> ELSE Ranked(list, results, n)

\* What the service answers to the clustering request: the request raises
\* ("error"), the text holds no JSON object ("text"), or it holds one with
\* these selected_indices, counted from 0, and these clusters ("json").
Answer(kind, indices, clusters) ==
    [kind |-> kind, indices |-> indices, clusters |-> clusters]

\* [list[i] for i in indices if i < len(list)], indices counted from 0
Picked(list, indices) ==
    LET valid == SelectSeq(indices, LAMBDA i : i < Len(list))
    IN  [k \in 1..Len(valid) |-> list[valid[k] + 1]]

\* what cluster_and_select_articles returns and how it ended; presented is
\* top_articles, the list the prompt numbers [0], [1], ...
Selected(raised, indices, chosen, presented, clusters) ==
    [raised |-> raised, selected_indices |-> indices,
     selected_articles |-> chosen, presented |-> presented,
     clusters |-> clusters]

\* cluster_and_select_articles from the request on: the request is outside
\* the try, a text without a JSON object gives the default selection of
\* the first five
Select5(top, service) ==
    LET first == [i \in 1..(IF Len(top) < 5 THEN Len(top) ELSE 5) |-> i - 1]
    IN  IF service.select.kind = "error"
        THEN Selected("APIError", << >>, << >>, top, << >>)
        ELSE IF service.select.kind = "text"
        THEN Selected("", first, Take(top, 5), top, << >>)
        ELSE Selected("", service.select.indices,
                      Picked(top, service.select.indices), top,
                      service.select.clusters)

\* cluster_and_select_articles(articles)
cluster_and_select_articles(list, preferences, service) ==
    Bind(ScoreEach(list, preferences, service), LAMBDA results :
        IF FirstRaised(results) /= ""
        THEN Selected(FirstRaised(results), << >>, << >>, << >>, << >>)
        ELSE Bind(Best(list, results, LinkedInTop), LAMBDA top :
                 Select5(top, service)))

\* cluster_and_select_articles(articles) called on its own
Cluster(list, service) ==
    \E r \in {cluster_and_select_articles(list, user_preferences, service)} :
        /\ op' = Call("cluster_and_select_articles",
                      [articles |-> list, service |-> service],
                      r.raised, r, << >>, << >>)
        /\ calls' = calls + 1
        /\ UNCHANGED << locked, articles, article_ratings, user_preferences,
                        digests, outbox, session, workers >>

\* A run of the pipeline or of a page of the dashboard in session s:
\*   name, arg    the call
\*   pc           the statement it stands before, "done" after
\*   list         the articles it read
\*   preferences  the preferences it read
\*   top          top_articles
\*   content      what synthesize returned
\*   digest_id    the id save_digest returned, 0 before
\*   raising      the exception that left the body of a with block, "" if none
\*   requests     the requests it made to the service
Running(name, arg, pc, list) ==
    [name |-> name, arg |-> arg, pc |-> pc, list |-> list,
     preferences |-> NoPreferences, top |-> << >>, content |-> None,
     digest_id |-> 0, raising |-> "", requests |-> << >>]

\* the run after its call returned or raised
Ended(w) ==
    [Running(w.name, w.arg, "done", << >>) EXCEPT !.digest_id = w.digest_id]

\* the call of session s returns or raises
Leave(s, w, raised, result) ==
    /\ workers' = Seat(s, Ended(w))
    /\ op' = Call(w.name, w.arg, raised, result, << >>, w.requests)
    /\ calls' = calls + 1

\* the call of session s goes on
Stay(s, w) ==
    /\ workers' = Seat(s, w)
    /\ UNCHANGED << op, calls >>

\* a save_digest that marks the digest as emailed when it saves it
save_digest_marked(saved, content, article_count) ==
    Append(saved, [content |-> content, article_count |-> article_count,
                   emailed_at |-> Some("now")])

\* db.save_digest(content, article_count): the INSERT leaves emailed_at
\* null; the id is cursor.lastrowid
save_digest(saved, content, article_count) ==
    Append(saved, [content |-> content, article_count |-> article_count,
                   emailed_at |-> None])

\* db.mark_digest_emailed(digest_id): UPDATE digests SET emailed_at = now
\* WHERE id = digest_id
mark_digest_emailed(saved, digest_id) ==
    [i \in 1..Len(saved) |->
        IF i = digest_id THEN [saved[i] EXCEPT !.emailed_at = Some("now")]
        ELSE saved[i]] \o << >>

\* the reply of the SMTP server to QUIT after which SMTP.__exit__ raises
\* nothing
QuitOk == "221"

\* whether the server has taken the email when the body of the with block
\* ends this way: a lost connection leaves both open
Taken(smtp) ==
    CASE smtp = "ok"            -> {TRUE}
      [] smtp = "SMTPException" -> {FALSE}
      [] OTHER                  -> BOOLEAN

-----------------------------------------------------------------------------
(* generate_digest, statement by statement: the reads of the articles and  *)
(* of the preferences, save_digest and mark_digest_emailed each open their *)
(* own connection and commit on their own, and the run waits on the        *)
(* service and on the SMTP server in between, so other runs can take steps *)
(* between the statements.  The requests of one stage change and read      *)
(* nothing that is shared and are one step.                                *)

\* The cli's digest command: generate_digest(since, dry_run=dry_run) up to
\* articles = db.get_articles_since(since); without articles the call
\* returns at once.
Digest(s, since, dry_run, service) ==
    \E list \in {get_articles_since(articles, since)} :
    \E w \in {Running("generate_digest",
                      [since |-> since, dry_run |-> dry_run, service |-> service],
                      "preferences", list)} :
        /\ Idle(s)
        /\ IF list = << >>
           THEN Leave(s, w, "", "No articles found")
           ELSE Stay(s, w)
        /\ UNCHANGED << locked, articles, article_ratings, user_preferences,
                        digests, outbox, session >>

\* preferences = db.get_all_preferences()
ReadPreferences(s) ==
    /\ workers[s].pc = "preferences"
    /\ Stay(s, [workers[s] EXCEPT !.preferences = user_preferences, !.pc = "score"])
    /\ UNCHANGED << locked, articles, article_ratings, user_preferences,
                    digests, outbox, session >>

\* scored, sorted_articles, top_articles: what a classifier raises ends
\* the call
ScoreArticles(s) ==
    /\ workers[s].pc = "score"
    /\ \E w \in {workers[s]} :
       \E results \in {ScoreEach(w.list, w.preferences, w.arg.service)} :
           /\ IF FirstRaised(results) /= ""
              THEN Leave(s, w, FirstRaised(results), None)
              ELSE Stay(s, [w EXCEPT !.top = Ranked(w.list, results, DigestTop),
                                     !.pc = "synthesize"])
           /\ UNCHANGED << locked, articles, article_ratings, user_preferences,
                           digests, outbox, session >>

\* content = synthesize(top_articles): what the final synthesis raises
\* ends the call
Synthesize(s) ==
    /\ workers[s].pc = "synthesize"
    /\ \E w \in {workers[s]} :
       \E text \in {synthesize(w.top, w.arg.service)} :
           /\ IF text.raised /= ""
              THEN Leave(s, [w EXCEPT !.requests = text.requests], text.raised, None)
              ELSE Stay(s, [w EXCEPT !.content = text.content,
                                     !.requests = text.requests, !.pc = "save"])
           /\ UNCHANGED << locked, articles, article_ratings, user_preferences,
                           digests, outbox, session >>

\* digest_id = db.save_digest(content, len(top_articles)); a dry run
\* returns the content.  The INSERT raises on a locked database.
SaveDigest(s) ==
    /\ workers[s].pc = "save"
    /\ \E w \in {workers[s]} :
       \E saved \in {save_digest(digests, w.content[1], Len(w.top))} :
           /\ IF execute(locked) /= ""
              THEN /\ UNCHANGED digests
                   /\ Leave(s, w, execute(locked), None)
              ELSE /\ digests' = saved
                   /\ IF w.arg.dry_run
                      THEN Leave(s, [w EXCEPT !.digest_id = Len(saved)], "",
                                 w.content[1])
                      ELSE Stay(s, [w EXCEPT !.digest_id = Len(saved), !.pc = "send"])
           /\ UNCHANGED << locked, articles, article_ratings, user_preferences,
                           outbox, session >>

\* send_email(content, digest_id), the body of `with smtplib.SMTP(...) as
\* server`: starttls, login and send_message.  The server takes the email
\* and says so; or the server refuses a command and the email is not
\* taken; or the connection is lost, which raises SMTPServerDisconnected,
\* before the server has the email or after it took it and before its
\* reply.  The with block is left next.
SendEmail(s) ==
    /\ workers[s].pc = "send"
    /\ \E w \in {workers[s]} :
       \E taken \in Taken(w.arg.service.smtp) :
           /\ outbox' = IF taken THEN Append(outbox, w.digest_id) ELSE outbox
           /\ Stay(s, [w EXCEPT !.pc = "quit",
                                !.raising = IF w.arg.service.smtp = "ok" THEN ""
                                            ELSE w.arg.service.smtp])
           /\ UNCHANGED << locked, articles, article_ratings, user_preferences,
                           digests, session >>

\* SMTP.__exit__ at the end of the with block sends QUIT: a reply other
\* than 221 raises SMTPResponseException, in place of the exception of the
\* body if there was one; a connection that is lost, in the body or now,
\* is passed over.  The exception of the body goes on otherwise, and
\* without one the call goes on to mark_digest_emailed.
Quit(s) ==
    /\ workers[s].pc = "quit"
    /\ \E w \in {workers[s]} :
           /\ IF /\ w.raising /= "SMTPServerDisconnected"
                 /\ w.arg.service.quit \notin {QuitOk, "SMTPServerDisconnected"}
              THEN Leave(s, w, "SMTPResponseException", None)
              ELSE IF w.raising /= ""
              THEN Leave(s, w, w.raising, None)
              ELSE Stay(s, [w EXCEPT !.pc = "mark"])
           /\ UNCHANGED << locked, articles, article_ratings, user_preferences,
                           digests, outbox, session >>

\* db.mark_digest_emailed(digest_id), and generate_digest returns the
\* content.  The UPDATE raises on a locked database.
MarkEmailed(s) ==
    /\ workers[s].pc = "mark"
    /\ \E w \in {workers[s]} :
           /\ IF execute(locked) /= ""
              THEN /\ UNCHANGED digests
                   /\ Leave(s, w, execute(locked), None)
              ELSE /\ digests' = mark_digest_emailed(digests, w.digest_id)
                   /\ Leave(s, w, "", w.content[1])
           /\ UNCHANGED << locked, articles, article_ratings, user_preferences,
                           outbox, session >>

-----------------------------------------------------------------------------
(* The LinkedIn page of the dashboard: one script run of                   *)
(* render_linkedin_generator                                               *)

\* limit=50 of get_articles, head(25) of articles_list and head(20) of the
\* rows with a checkbox
PageLimit == 50
ListHead  == 25
BoxHead   == 20

\* get_articles(date_from=today, limit=50): the rows crawled today, today
\* given as the id of the first row that late, the latest first
get_articles(rows, since) ==
    Take(Reversed(SelectSeq(rows, LAMBDA r : r.id >= since)), PageLimit)

\* pd.read_sql_query: a NULL in a column that holds numbers is read as nan
Frame(rows) ==
    IF \A i \in 1..Len(rows) : rows[i].score = None THEN rows
    ELSE [i \in 1..Len(rows) |->
             IF rows[i].score = None THEN [rows[i] EXCEPT !.score = NotANumber]
             ELSE rows[i]] \o << >>

\* row a holds a number in its score column
Numbered(a) == a.score /= None /\ a.score /= NotANumber

\* sort_values("score", ascending=False, na_position="last") must put row
\* b ahead of row a
Behind(a, b) ==
    \/ ~ Numbered(a) /\ Numbered(b)
    \/ Numbered(a) /\ Numbered(b) /\ a.score[1] < b.score[1]

\* articles_df.sort_values("score", ascending=False, na_position="last"):
\* the sort is not stable, rows of equal score come in any order
sort_values(rows) ==
    { list \in [1..Len(rows) -> {rows[i] : i \in 1..Len(rows)}] :
        /\ \A i, j \in 1..Len(list) : i /= j => list[i].id /= list[j].id
        /\ \A i, j \in 1..Len(list) : i < j => ~ Behind(list[i], list[j]) }

\* the frames the page can work on
Listings(since) == sort_values(Frame(get_articles(articles, since)))

\* a topic of st.session_state.selected_topics
Topic(a) ==
    [title |-> a.title, summary |-> a.summary, source |-> a.source,
     url |-> a.url, score |-> a.score]

\* "AI Select": the topics stored are taken from articles_list at the
\* indices returned
AISelect(list, indices) ==
    LET chosen == Picked(list, indices)
    IN  [k \in 1..Len(chosen) |-> Topic(chosen[k])] \o << >>

\* "Clear Selection"
ClearSelection == << >>

\* the tab "AI Selected": int(topic["score"]) of a nan
Shown(topics) ==
    IF \E k \in 1..Len(topics) : topics[k].score = NotANumber
    THEN "ValueError" ELSE ""

\* the tab "All Articles": the row of each checked box is appended unless
\* its url is selected, the topics with the url of an unchecked box are
\* removed; boxes holds the ids of the rows whose checkbox comes back
\* checked
RECURSIVE Checked(_, _, _)
Checked(topics, rows, boxes) ==
    IF rows = << >> THEN topics
    ELSE LET row == Head(rows)
         IN  Checked(IF row.id \in boxes
                     THEN IF \E k \in 1..Len(topics) : topics[k].url = row.url
                          THEN topics ELSE Append(topics, Topic(row))
                     ELSE SelectSeq(topics, LAMBDA t : t.url /= row.url),
                     Tail(rows), boxes)

\* what a script run of the page leaves and how it ended: articles_list,
\* the result of cluster_and_select_articles and how that call ended, and
\* the topics the button's handler stored
Paged(raised, list, r, stored) ==
    [raised |-> raised, articles |-> list, asked |-> r.raised,
     selected_indices |-> r.selected_indices,
     selected_articles |-> r.selected_articles, presented |-> r.presented,
     clusters |-> r.clusters, stored |-> stored]

\* the script run without a call of cluster_and_select_articles
NotAsked == Selected("", << >>, << >>, << >>, << >>)

\* A script run of render_linkedin_generator in the dashboard's session,
\* started by a press of button ("" for another widget), up to
\* articles_df = get_articles(...): without articles the run returns.
\* get_articles is cached for five minutes, the frame is the one of a read
\* that can be that old; the articles do not change here.
LinkedIn(s, since, button, boxes, service) ==
    \E frame \in Listings(since) :
    \E w \in {Running("render_linkedin_generator",
                      [since |-> since, button |-> button, boxes |-> boxes,
                       service |-> service],
                      "handle", frame)} :
        /\ Idle(s)
        /\ \A t \in 1..Len(workers) :
              workers[t].name = "render_linkedin_generator" => workers[t].pc = "done"
        /\ IF frame = << >>
           THEN Leave(s, w, "", Paged("", << >>, NotAsked, session.selected_topics))
           ELSE Stay(s, w)
        /\ UNCHANGED << locked, articles, article_ratings, user_preferences,
                        digests, outbox, session >>

\* The rest of the script run: the handler of the button pressed, the two
\* tabs and the checkboxes.  What cluster_and_select_articles or a tab
\* raises ends the run with the session as the statements before left it.
Handle(s) ==
    /\ workers[s].pc = "handle"
    /\ \E w \in {workers[s]} :
       \E list \in {Take(w.list, ListHead)} :
       \E r \in {IF w.arg.button = "AI Select"
                 THEN cluster_and_select_articles(list, user_preferences, w.arg.service)
                 ELSE NotAsked} :
       \E stored \in {CASE w.arg.button = "AI Select" /\ r.raised = "" ->
                               AISelect(list, r.selected_indices)
                        [] w.arg.button = "Clear Selection" -> ClearSelection
                        [] OTHER -> session.selected_topics} :
       \E clusters \in {CASE w.arg.button = "AI Select" /\ r.raised = "" -> r.clusters
                          [] w.arg.button = "Clear Selection" -> << >>
                          [] OTHER -> session.clusters} :
           /\ IF r.raised /= ""
              THEN /\ Leave(s, w, r.raised, Paged(r.raised, list, r, stored))
                   /\ UNCHANGED session
              ELSE IF Shown(stored) /= ""
              THEN /\ Leave(s, w, Shown(stored), Paged(Shown(stored), list, r, stored))
                   /\ session' = [session EXCEPT !.selected_topics = stored,
                                                 !.clusters = clusters]
              ELSE /\ Leave(s, w, "", Paged("", list, r, stored))
                   /\ session' = [session EXCEPT
                                    !.selected_topics =
                                        Checked(stored, Take(w.list, BoxHead), w.arg.boxes),
                                    !.clusters = clusters]
           /\ UNCHANGED << locked, articles, article_ratings, user_preferences,
                           digests, outbox >>

\* the stores the pipeline runs on: none, one that likes reddit and one
\* that dislikes hackernews, each past the threshold of ten samples
DigestStores ==
    { NoPreferences,
      Repeat(NoPreferences, "source", "reddit", One, 10),
      Repeat(NoPreferences, "source", "hackernews", MinusOne, 10) }

\* a digest saved and emailed by an earlier run
EarlierDigest ==
    [content |-> [model |-> DefaultModel, summaries |-> << << "arxiv", TRUE >> >>],
     article_count |-> 1, emailed_at |-> Some("now")]

InitDigest ==
    /\ articles = save_articles(<< >>, << NewOpenSource, HowToGuide, HelloWorld, Untagged >>).rows
    /\ article_ratings = NoRatings
    /\ user_preferences \in DigestStores
    /\ op = Call("init_db", None, "", None, << >>, << >>)
    /\ calls = 0
    /\ \/ digests = << >> /\ outbox = << >>
       \/ digests = << EarlierDigest >> /\ outbox = << 1 >>
    /\ session = NewSession
    /\ workers = NoWorkers
    /\ locked = FALSE

\* how the three requests of the final synthesis end, should they be made
SynthesisOutcomes ==
    { << "ok", "ok", "ok" >>, << "APIError", "ok", "ok" >>,
      << "APIError", "APIError", "ok" >>, << "APIError", "APIError", "APIError" >>,
      << "IndexError", "ok", "ok" >>, << "APIError", "IndexError", "ok" >> }

\* no answer is asked of the clustering request
NoAnswer == Answer("json", << >>, << >>)

\* the behaviours of the service and of the SMTP server: smtp is how the
\* body of the with block ends (the email taken, refused, or the connection
\* lost), quit the reply to QUIT or that the connection is lost
Services ==
    [themes : {ReplyList}, type : {ReplyEmpty, ReplyDict}, insights : {ReplyList},
     failing : {{}, {"hackernews", "reddit"}},
     model : {DefaultModel, FALLBACK_MODELS[1], FALLBACK_MODELS[2]},
     outcomes : SynthesisOutcomes,
     smtp : {"ok", "SMTPException", "SMTPServerDisconnected"},
     quit : {QuitOk, "421", "SMTPServerDisconnected"},
     select : {NoAnswer}]

\* a service that answers every request, with an SMTP server that takes
\* the email or not and answers QUIT with 221 or not
Working ==
    [themes : {ReplyList}, type : {ReplyEmpty}, insights : {ReplyList},
     failing : {{}}, model : {DefaultModel}, outcomes : {<< "ok", "ok", "ok" >>},
     smtp : {"ok", "SMTPException"},
     quit : {QuitOk, "421"},
     select : {NoAnswer}]

\* one cluster, as the service names it
OneCluster == << [theme |-> "AI", article_indices |-> << 0 >>] >>

Selections ==
    [themes : {ReplyList}, type : {ReplyEmpty, ReplyDict}, insights : {ReplyList},
     failing : {{}}, model : {DefaultModel}, outcomes : {<< "ok", "ok", "ok" >>},
     smtp : {"ok"},
     quit : {QuitOk},
     select : {Answer("error", << >>, << >>), Answer("text", << >>, << >>),
               Answer("json", << >>, << >>)}
              \cup {Answer("json", ix, OneCluster) :
                       ix \in {<< 0 >>, << 1 >>, << 1, 0 >>, << 0, 2 >>, << 0, 3 >>}}]

\* the clustering answers of a script run that follows another call
Reselections ==
    {service \in Selections :
        /\ service.type = ReplyEmpty
        /\ service.select \in {Answer("json", << 0, 2 >>, OneCluster)}}

\* the buttons of the page that a script run handles, "" for a run that
\* another widget started
PageButtons == {"AI Select", "Clear Selection", ""}

\* the rows whose checkbox comes back checked: none, the first, the two
\* best or all
Boxes == {{}, {1}, {1, 4}, {1, 2, 3, 4}}

\* the number of calls a behaviour of SpecDigest makes
MaxRuns == 2

\* a call may begin: MaxRuns bounds the calls made, in flight or over
Runnable == calls + Cardinality(Busy) < MaxRuns

\* every call made so far had a service of the few
Narrow ==
    /\ \A t \in 1..Len(workers) : workers[t].arg.service \in Working \cup Reselections
    /\ op.name = "cluster_and_select_articles" => op.arg.service \in Reselections

\* the first call of a behaviour takes every input; a call follows or
\* overlaps calls that took a few, and takes a few
Among(every, few) == IF First THEN every ELSE IF Narrow THEN few ELSE {}

DoDigest ==
    Runnable /\ \E s \in Free, since \in {1, Len(articles) + 1}, dry_run \in BOOLEAN,
                service \in Among(Services, Working) :
                 Digest(s, since, dry_run, service)

DoReadPreferences == \E s \in 1..Len(workers) : ReadPreferences(s)

DoScoreArticles == \E s \in 1..Len(workers) : ScoreArticles(s)

DoSynthesize == \E s \in 1..Len(workers) : Synthesize(s)

DoSaveDigest == \E s \in 1..Len(workers) : SaveDigest(s)

DoSendEmail == \E s \in 1..Len(workers) : SendEmail(s)

DoQuit == \E s \in 1..Len(workers) : Quit(s)

DoMarkEmailed == \E s \in 1..Len(workers) : MarkEmailed(s)

DoCluster ==
    Runnable /\ \E since \in {1, 3}, service \in Among(Selections, Reselections) :
                 \E list \in {get_articles_since(articles, since)} :
                     Cluster(list, service)

DoLinkedIn ==
    Runnable /\ \E s \in Free, since \in Among({1, 3, Len(articles) + 1}, {1}),
                button \in PageButtons, boxes \in Boxes,
                service \in Among(Selections, Reselections) :
                 LinkedIn(s, since, button, boxes, service)

DoHandle == \E s \in 1..Len(workers) : Handle(s)

NextDigest ==
    \/ DoDigest
    \/ DoReadPreferences
    \/ DoScoreArticles
    \/ DoSynthesize
    \/ DoSaveDigest
    \/ DoSendEmail
    \/ DoQuit
    \/ DoMarkEmailed
    \/ DoCluster
    \/ DoLinkedIn
    \/ DoHandle

SpecDigest == InitDigest /\ [][NextDigest]_vars
-----------------------------------------------------------------------------
(* SpecRace: update_preference calls whose statements interleave           *)

\* the stores the calls start from: no row, and a row for hackernews in the
\* middle of the range, at its upper end and at its lower end
RaceStores ==
    { NoPreferences,
      Repeat(NoPreferences, "source", "hackernews", Tenth, 3),
      Repeat(NoPreferences, "source", "hackernews", One, 1),
      Repeat(NoPreferences, "source", "hackernews", MinusOne, 2) }

InitRace ==
    /\ articles = << >>
    /\ article_ratings = NoRatings
    /\ user_preferences \in RaceStores
    /\ op = Call("init_db", None, "", None, << >>, << >>)
    /\ calls = 0
    /\ Quiet

\* a new session calls update_preference
DoBegin ==
    /\ Len(workers) < MaxWorkers
    /\ \E key \in {"hackernews", "reddit"}, delta \in {Tenth, FNeg(Tenth), One} :
           UpdatePreference(Len(workers) + 1, "source", key, delta)

NextRace ==
    \/ DoBegin
    \/ DoSelect
    \/ DoWrite
    \/ DoCollect

SpecRace == InitRace /\ [][NextRace]_vars
-----------------------------------------------------------------------------
(* SpecReview: the review screen of the dashboard                          *)

\* get_unrated_articles(since): the articles of the period without a row
\* in article_ratings, in the order of get_articles_since
get_unrated_articles(rows, ratings, since) ==
    get_articles_since(
        SelectSeq(rows, LAMBDA r : \A i \in 1..Len(ratings) : ratings[i].article_id /= r.id),
        since)

ReviewButtons ==
    {"Dislike", "Neutral", "Like", "Skip", "Previous", "Next", "MarkRemaining"}

\* the buttons a user can press after a script run that showed unrated[idx]
\* of n articles: Previous and Next are disabled at the ends of the list
Enabled(idx, n) ==
    ReviewButtons \ ((IF idx = 0 THEN {"Previous"} ELSE {})
                     \cup (IF idx >= n - 1 THEN {"Next"} ELSE {}))

\* the rating a button saves
RatingOf(button) ==
    CASE button = "Like"    -> "up"
      [] button = "Dislike" -> "down"
      [] OTHER              -> "neutral"

\* the script run of session s ends
EndRun(s, w, raised, page) ==
    /\ workers' = Seat(s, Finished(w, raised, user_preferences))
    /\ op' = Call("render_review_mode", w.caller[1].arg, raised, None,
                  w.classifier, w.external)
    /\ calls' = calls + 1
    /\ session' = [session EXCEPT !.page = page]

\* One press of a button of the review screen: the script run that handles
\* it, from unrated = db.get_unrated_articles(today) up to the handler's
\* first call of db.save_rating.  The buttons are those of the page the
\* last run made.  An empty list makes no button, an index past the list
\* raises; Skip, Previous and Next move the index and ask for the rerun.
\* The button a run makes disabled that the page showed enabled is handled
\* or not.
Press(s, button, rType) ==
    /\ Idle(s)
    /\ button \in session.page
    /\ \E unrated \in {get_unrated_articles(articles, article_ratings, 1)} :
       \E idx \in {session.review_index}, n \in {Len(unrated)} :
       \E caller \in {Some([arg |-> [button |-> button,
                                     article |-> IF idx < n THEN Some(unrated[idx + 1])
                                                 ELSE None],
                            idx |-> idx, n |-> n])} :
       \E w \in {Started("render_review_mode", caller[1].arg, "rerun", "",
                         Some([themes |-> ReplyList, type |-> rType,
                               insights |-> ReplyList]),
                         << >>, caller)} :
           IF unrated = << >>
           THEN EndRun(s, w, "", {})
           ELSE IF idx >= n
           THEN EndRun(s, w, "IndexError", {})
           ELSE IF button \in {"Like", "Dislike", "Neutral"}
           THEN /\ workers' = Seat(s, [w EXCEPT !.pc = "rate",
                                                !.article = Some(unrated[idx + 1])])
                /\ UNCHANGED << session, op, calls >>
           ELSE IF button = "MarkRemaining"
           THEN /\ workers' = Seat(s, [w EXCEPT !.pc = "mark",
                                                !.todo = SubSeq(unrated, idx + 1, n)])
                /\ UNCHANGED << session, op, calls >>
           ELSE \/ /\ workers' = Seat(s, w)
                   /\ session' = [session EXCEPT !.review_index =
                                     IF button = "Previous"
                                     THEN IF idx - 1 > 0 THEN idx - 1 ELSE 0
                                     ELSE Ahead(idx, n)]
                   /\ UNCHANGED << op, calls >>
                \/ /\ button \notin Enabled(idx, n)
                   /\ EndRun(s, w, "", Enabled(idx, n))
    /\ UNCHANGED << articles, article_ratings, user_preferences, digests, outbox, locked >>

\* db_module.save_rating(article["id"], rating) of Dislike, Neutral and
\* Like: Neutral then moves the index and asks for the rerun, Dislike and
\* Like call learn_from_rating.  What save_rating raises on a locked
\* database ends the script run.
Rate(s) ==
    /\ workers[s].pc = "rate"
    /\ \E w \in {workers[s]} :
       \E button \in {w.arg.button}, article \in {w.article[1]} :
           IF execute(locked) /= ""
           THEN /\ EndRun(s, w, execute(locked), MadeBefore(button))
                /\ UNCHANGED article_ratings
           ELSE
           /\ article_ratings' = save_rating(article_ratings, article.id, RatingOf(button))
           /\ UNCHANGED << op, calls >>
           /\ IF button = "Neutral"
              THEN /\ workers' = Seat(s, [w EXCEPT !.pc = "rerun", !.article = None])
                   /\ session' = [session EXCEPT !.review_index =
                                     Ahead(w.caller[1].idx, w.caller[1].n)]
              ELSE /\ workers' = Seat(s, Started("learn_from_rating",
                                                 [article_id |-> article.id,
                                                  rating |-> RatingOf(button),
                                                  available |-> TRUE],
                                                 "lookup", "source", w.replies,
                                                 << >>, w.caller))
                   /\ UNCHANGED session
    /\ UNCHANGED << articles, user_preferences, digests, outbox, locked >>

\* for a in unrated[idx:]: db_module.save_rating(a["id"], "neutral"), one
\* article of the loop; after the last one st.rerun().  What save_rating
\* raises on a locked database ends the script run, with every button of
\* the page made.
MarkNeutral(s) ==
    /\ workers[s].pc = "mark"
    /\ \E w \in {workers[s]} :
           IF execute(locked) /= ""
           THEN /\ EndRun(s, [w EXCEPT !.todo = << >>], execute(locked),
                          Enabled(w.caller[1].idx, w.caller[1].n))
                /\ UNCHANGED article_ratings
           ELSE
           /\ article_ratings' = save_rating(article_ratings, Head(w.todo).id, "neutral")
           /\ workers' = Seat(s, [w EXCEPT !.todo = Tail(w.todo),
                                           !.pc = IF Tail(w.todo) = << >>
                                                  THEN "rerun" ELSE "mark"])
           /\ UNCHANGED << op, calls, session >>
    /\ UNCHANGED << articles, user_preferences, digests, outbox, locked >>

\* The script run after st.rerun(): it reads the unrated articles again
\* and looks up unrated[review_index].
Rerun(s) ==
    /\ workers[s].pc = "rerun"
    /\ \E w \in {workers[s]} :
       \E after \in {get_unrated_articles(articles, article_ratings, 1)} :
           IF after = << >>
           THEN EndRun(s, w, "", {})
           ELSE IF session.review_index >= Len(after)
           THEN EndRun(s, w, "IndexError", {})
           ELSE EndRun(s, w, "", Enabled(session.review_index, Len(after)))
    /\ UNCHANGED << articles, article_ratings, user_preferences, digests, outbox, locked >>

\* session s, not the dashboard's, calls db.save_rating(article_id, rating)
\* with one of the three ratings; the upsert raises on a locked database
Rating(s, article_id, rating) ==
    /\ Idle(s)
    /\ article_ratings' = IF execute(locked) /= "" THEN article_ratings
                          ELSE save_rating(article_ratings, article_id, rating)
    /\ workers' = Seat(s, Finished(Started("save_rating",
                                           [article_id |-> article_id, rating |-> rating],
                                           "done", "", None, << >>, None),
                                   execute(locked), user_preferences))
    /\ op' = Call("save_rating", [article_id |-> article_id, rating |-> rating],
                  execute(locked), None, << >>, << >>)
    /\ calls' = calls + 1
    /\ UNCHANGED << articles, user_preferences, digests, outbox, session, locked >>

\* the dashboard's session after the script run that made the first page
Opened ==
    Finished(Started("render_review_mode", [button |-> "", article |-> None],
                     "done", "", None, << >>, None),
             "", NoPreferences)

InitReview ==
    /\ articles = save_articles(<< >>, << NewOpenSource, HowToGuide, HelloWorld, Untagged >>).rows
    /\ article_ratings \in {NoRatings, save_rating(NoRatings, 2, "up")}
    /\ user_preferences = NoPreferences
    /\ op = Call("init_db", None, "", None, << >>, << >>)
    /\ calls = 0
    /\ digests = << >>
    /\ outbox = << >>
    /\ locked = FALSE
    /\ session = [NewSession EXCEPT !.page =
                     Enabled(0, Len(get_unrated_articles(articles, article_ratings, 1)))]
    /\ workers = << Opened >>

DoPress ==
    Ready /\ \E button \in ReviewButtons, rType \in {ReplyEmpty, ReplyDict} :
                 Press(1, button, rType)

DoRate == \E s \in 1..Len(workers) : Rate(s)

DoMarkNeutral == \E s \in 1..Len(workers) : MarkNeutral(s)

DoRerun == \E s \in 1..Len(workers) : Rerun(s)

DoRating ==
    Ready /\ \E id \in 1..Len(articles), rating \in {"up", "down", "neutral"} :
                 Rating(2, id, rating)

NextReview ==
    \/ DoPress
    \/ DoRate
    \/ DoMarkNeutral
    \/ DoLookup
    \/ DoClassify
    \/ DoSelect
    \/ DoWrite
    \/ DoRerun
    \/ DoRating

SpecReview == InitReview /\ [][NextReview]_vars

-----------------------------------------------------------------------------
(* SpecTagged: the calls of SpecStored on stores that hold the keys of the *)
(* article whose tags all come from keywords                               *)

\* the stores the call starts from: for the source arxiv, the theme agents
\* and the type tutorial no row, or a row on either side of its threshold
TaggedStores ==
    { Repeat(Repeat(Repeat(NoPreferences,
          "source", "arxiv", hs[2], hs[1]),
          "theme", "agents", ha[2], ha[1]),
          "type", "tutorial", ht[2], ht[1]) :
      hs \in {Absent, << 9, FNeg(Tenth) >>, << 9, Tenth >>, << 10, MinusOne >>, << 10, One >>},
      ha \in {Absent, << 4, MinusOne >>, << 5, Tenth >>},
      ht \in {Absent, << 4, Tenth >>, << 5, FNeg(Tenth) >>} }

InitTagged ==
    /\ articles = save_articles(<< >>, << NewOpenSource, HowToGuide, HelloWorld, Untagged >>).rows
    /\ article_ratings = NoRatings
    /\ user_preferences \in TaggedStores
    /\ op = Call("init_db", None, "", None, << >>, << >>)
    /\ calls = 0
    /\ Quiet

SpecTagged == InitTagged /\ [][NextStored]_vars

-----------------------------------------------------------------------------
(* The claims                                                              *)

\* sample_count and weight of a key, 0 for a key with no row
CountOf(preferences, k) ==
    IF k \in DOMAIN preferences THEN preferences[k].sample_count ELSE 0

WeightOf(preferences, k) ==
    IF k \in DOMAIN preferences THEN preferences[k].weight ELSE Zero

\* C1: in every state reached by save_articles, save_rating, learn,
\* update_preference, reset_preferences and score_article calls on a new
\* database, every stored weight lies in [-1.0, 1.0].
C1_WeightsClamped ==
    \A k \in DOMAIN user_preferences :
        /\ FLe(MinusOne, user_preferences[k].weight)
        /\ FLe(user_preferences[k].weight, One)

\* a like of an article whose source already stood at 1.0: 1.1 is clamped
C1_Witness ==
    /\ op.name = "learn_from_rating"
    /\ op.arg.rating = "up"
    /\ << "source", "hackernews" >> \in DOMAIN user_preferences
    /\ user_preferences[<< "source", "hackernews" >>] = Row(One, 2)

\* the step is the return (or the raise) of a call of this name
Made(name) == calls' = calls + 1 /\ op'.name = name

\* the sessions whose call the step moves on
Stepping ==
    {s \in 1..Len(workers') : s > Len(workers) \/ workers'[s] /= workers[s]}

C3_Clamp(x) == IF FLt(One, x) THEN One ELSE IF FLt(x, MinusOne) THEN MinusOne ELSE x

\* C3: update_preference(category, key, delta) leaves the key with weight
\* clamp(old_weight + delta) and sample_count old_sample_count + 1, an
\* absent key counting as weight 0 and sample_count 0, and leaves every
\* other entry as it was.
C3_UpdateRule ==
    [][ (Made("update_preference") /\ op'.alone) =>
            LET k   == << op'.arg.category, op'.arg.key >>
                old == op'.before
            IN  /\ op'.raised = ""
                /\ DOMAIN user_preferences' = DOMAIN old \cup {k}
                /\ user_preferences'[k] =
                       Row(C3_Clamp(FAdd(WeightOf(old, k), op'.arg.delta)),
                           CountOf(old, k) + 1)
                /\ \A j \in DOMAIN old \ {k} : user_preferences'[j] = old[j]
      ]_vars

\* +1.0 on a source that stood at 0.9999999999999999 after ten updates
C3_Witness ==
    /\ op.name = "update_preference"
    /\ op.arg = [category |-> "source", key |-> "hackernews", delta |-> One]
    /\ << "source", "hackernews" >> \in DOMAIN user_preferences
    /\ user_preferences[<< "source", "hackernews" >>] = Row(One, 11)

\* the reply the call got for a category, ReplyError where none was asked
ReplyFor(external, category) ==
    LET asked(e) == e.category = category
        hits     == SelectSeq(external, asked)
    IN  IF hits = << >> THEN ReplyError ELSE hits[1].reply

\* the keys a learn call is to update, in order: the source, the derived
\* themes, the derived type, the derived insights
C4_Touched(article, external) ==
    LET themes   == extract_themes(article, ReplyFor(external, "themes")).tags
        type     == classify_type(article, ReplyFor(external, "type")).tags
        insights == assess_insights(article, ReplyFor(external, "insights")).tags
    IN  << << "source", article.source >> >>
        \o [i \in 1..Len(themes) |-> << "theme", themes[i] >>]
        \o [i \in 1..Len(type) |-> << "type", type[i] >>]
        \o [i \in 1..Len(insights) |-> << "insight", insights[i] >>]

\* a row after n updates by delta
RECURSIVE C4_After(_, _, _)
C4_After(row, delta, n) ==
    IF n = 0 THEN row
    ELSE C4_After(Row(C3_Clamp(FAdd(row.weight, delta)), row.sample_count + 1),
                  delta, n - 1)

\* the learn call that returns gave each key it was to update that many
\* updates by the full delta, the type among them, and touched no other key
C4_FullEffect ==
    LET article == articles[op'.arg.article_id]
        delta   == IF op'.arg.rating = "up" THEN Tenth ELSE FNeg(Tenth)
        touched == C4_Touched(article, op'.external)
        Times(k) == Cardinality({i \in 1..Len(touched) : touched[i] = k})
    IN  /\ \E i \in 1..Len(touched) : touched[i][1] = "type"
        /\ DOMAIN user_preferences' =
               DOMAIN op'.before \cup {touched[i] : i \in 1..Len(touched)}
        /\ \A k \in DOMAIN user_preferences' :
               user_preferences'[k] =
                   C4_After(Row(WeightOf(op'.before, k), CountOf(op'.before, k)),
                            delta, Times(k))

\* C4: learn(article_id, up or down) on a stored article applies one update
\* of signal * 0.1 to the source, to each derived theme, to the one derived
\* type and to each derived insight, each with the full delta, and touches
\* no other key.
C4_LearnUpdatesEveryCategory ==
    [][ ( /\ Made("learn_from_rating")
          /\ op'.alone
          /\ op'.arg.rating \in {"up", "down"}
          /\ op'.arg.article_id \in 1..Len(articles) ) => C4_FullEffect
      ]_vars

\* C5: learn(id, neutral) leaves the preference store as it was, returns,
\* and runs neither a classifier nor a request to the external service.
C5_NeutralNoOp ==
    [][ (Made("learn_from_rating") /\ op'.arg.rating = "neutral") =>
            /\ user_preferences' = user_preferences
            /\ user_preferences' = op'.before
            /\ op'.raised = ""
            /\ op'.classifier = << >>
            /\ op'.external = << >>
      ]_vars

\* a neutral rating of a stored article, on a store that holds preferences
C5_Witness ==
    /\ op.name = "learn_from_rating"
    /\ op.arg.article_id = 1
    /\ op.arg.rating = "neutral"
    /\ user_preferences /= NoPreferences

\* C6: learn(article_id, up or down) for an id no stored article has
\* returns without raising and leaves the preference store as it was.
C6_MissingArticle ==
    [][ ( /\ Made("learn_from_rating")
          /\ op'.arg.rating \in {"up", "down"}
          /\ ~ \E i \in 1..Len(articles) : articles[i].id = op'.arg.article_id ) =>
            /\ op'.raised = ""
            /\ user_preferences' = user_preferences
            /\ user_preferences' = op'.before
      ]_vars

\* a dislike of article 5 of 4, on a store that holds preferences
C6_Witness ==
    /\ op.name = "learn_from_rating"
    /\ op.arg.article_id = Len(articles) + 1
    /\ op.arg.rating = "down"
    /\ op.raised = ""
    /\ user_preferences /= NoPreferences

\* C7: no save_rating or learn call with a rating outside up, down and
\* neutral changes a stored rating or a preference entry.
C7_InvalidRatingInert ==
    [][ /\ ( /\ Made("save_rating")
             /\ op'.arg.rating \notin {"up", "down", "neutral"} ) =>
               /\ article_ratings' = article_ratings
               /\ user_preferences' = user_preferences
        /\ ( /\ Made("learn_from_rating")
             /\ op'.alone
             /\ op'.arg.rating \notin {"up", "down", "neutral"} ) =>
               /\ article_ratings' = article_ratings
               /\ user_preferences' = op'.before
      ]_vars

\* the preferences a score call read: its argument, or the store
SnapshotOf(call, stored) ==
    IF call.arg.preferences = None THEN stored ELSE call.arg.preferences[1]

C8_Threshold(category) == IF category = "source" THEN 10 ELSE 5

C8_Times(category, weight) ==
    CASE category = "source"  -> FMul2(weight)
      [] category = "theme"   -> weight
      [] category = "type"    -> FMul15(weight)
      [] category = "insight" -> FHalf(weight)

\* what the preference of a key adds to the score
C8_Contribution(snapshot, category, key) ==
    LET k == << category, key >>
    IN  IF k \in DOMAIN snapshot /\ snapshot[k].sample_count >= C8_Threshold(category)
        THEN C8_Times(category, snapshot[k].weight)
        ELSE Zero

\* the terms of the score, in the order they are added
C8_Terms(snapshot, article, external) ==
    LET themes   == extract_themes(article, ReplyFor(external, "themes")).tags
        type     == classify_type(article, ReplyFor(external, "type")).tags
        insights == assess_insights(article, ReplyFor(external, "insights")).tags
    IN  << C8_Contribution(snapshot, "source", article.source) >>
        \o [i \in 1..Len(themes) |-> C8_Contribution(snapshot, "theme", themes[i])]
        \o [i \in 1..Len(type) |-> C8_Contribution(snapshot, "type", type[i])]
        \o [i \in 1..Len(insights) |-> C8_Contribution(snapshot, "insight", insights[i])]
        \o << FMulMilli(IF article.score = None THEN 0 ELSE article.score[1]) >>

RECURSIVE C8_Sum(_)
C8_Sum(terms) ==
    IF terms = << >> THEN Zero
    ELSE FAdd(C8_Sum(SubSeq(terms, 1, Len(terms) - 1)), terms[Len(terms)])

\* C8: the score returned is the sum of weight * 2.0 of the source
\* preference with sample_count >= 10, weight * 1.0 of each derived theme's
\* preference with sample_count >= 5, weight * 1.5 of the derived type's,
\* weight * 0.5 of each derived insight's, and (popularity or 0) * 0.001.
C8_ScoreFormula ==
    (op.name = "score_article" /\ op.raised = "") =>
        op.result = C8_Sum(C8_Terms(SnapshotOf(op, user_preferences),
                                    op.arg.article, op.external))

\* a score with a source, a theme, the type and an insight all adding to it
C8_Witness ==
    /\ op.name = "score_article"
    /\ op.raised = ""
    /\ LET terms == C8_Terms(SnapshotOf(op, user_preferences), op.arg.article, op.external)
       IN  /\ Len(terms) = 7
           /\ \A i \in {1, 2, 4, 6} : terms[i] /= Zero

\* C9: a preference whose sample_count is below the threshold of its
\* category adds nothing to a score: the score is the same with that
\* preference's weight at -1.0, 0.0 or 1.0, and with the preference absent.
C9_BelowThresholdInert ==
    (op.name = "score_article" /\ op.raised = "") =>
        LET snapshot == SnapshotOf(op, user_preferences)
            Rescore(s) == score_article(user_preferences, op.arg.article, Some(s),
                                        ReplyFor(op.external, "themes"),
                                        ReplyFor(op.external, "type"),
                                        ReplyFor(op.external, "insights")).value
        IN  \A k \in DOMAIN snapshot :
                snapshot[k].sample_count < C8_Threshold(k[1]) =>
                    /\ \A w \in {MinusOne, Zero, One} :
                           Rescore(Put(snapshot, k, Row(w, snapshot[k].sample_count)))
                               = op.result
                    /\ Rescore([j \in DOMAIN snapshot \ {k} |-> snapshot[j]]) = op.result

\* a score of a hackernews article while hackernews stands at 1.0 after 9
\* samples and open_source at 1.0 after 4
C9_Witness ==
    /\ op.name = "score_article"
    /\ op.raised = ""
    /\ op.arg.article.url = NewOpenSource.url
    /\ LET snapshot == SnapshotOf(op, user_preferences)
       IN  /\ << "source", "hackernews" >> \in DOMAIN snapshot
           /\ snapshot[<< "source", "hackernews" >>] = Row(One, 9)
           /\ << "theme", "open_source" >> \in DOMAIN snapshot
           /\ snapshot[<< "theme", "open_source" >>] = Row(One, 4)

\* C10: a score_article call leaves the articles, the ratings and the
\* preferences as they were.
C10_ScoreReadsOnly ==
    [][ Made("score_article") =>
            /\ articles' = articles
            /\ article_ratings' = article_ratings
            /\ user_preferences' = user_preferences
      ]_vars

\* a score that returned, of an article of a store that holds preferences
C10_Witness ==
    /\ op.name = "score_article"
    /\ op.raised = ""
    /\ user_preferences /= NoPreferences

\* C11: a score call asks nothing of the external service, and its outcome
\* is the same whatever the service would have answered: the same article
\* and the same preferences give the same value under every reply.
C11_ScorePure ==
    op.name = "score_article" =>
        /\ op.external = << >>
        /\ \A rThemes \in ThemeReplies, rType \in TypeReplies, rInsights \in InsightReplies :
               LET again == score_article(user_preferences, op.arg.article,
                                          op.arg.preferences, rThemes, rType, rInsights)
               IN  again.raised = op.raised /\ again.value = op.result

\* the article a classifier, learn or score call worked on, None where a
\* learn call found none
ArticleOf(call, rows) ==
    IF call.name = "learn_from_rating"
    THEN IF call.arg.article_id \in 1..Len(rows)
         THEN Some(rows[call.arg.article_id]) ELSE None
    ELSE Some(call.arg.article)

\* the keyword pass of the category finds a tag for the article
C12_KeywordHit(category, article) ==
    LET t == << article.title, article.summary >>
    IN  CASE category = "themes"   -> ThemeMatch[t] /= << >>
          [] category = "type"     -> TypeMatch[t] /= << >>
          [] category = "insights" -> InsightMatch[t] /= << >>

C12_Classifying ==
    {"extract_themes", "classify_type", "assess_insights",
     "learn_from_rating", "score_article"}

C12_OpenSource == << "o", "p", "e", "n", " ", "s", "o", "u", "r", "c", "e" >>

\* C12: no call asks the external service about a category whose keyword
\* pass found a tag for the article, and extract_themes of an article with
\* "open source" in its title returns a list holding open_source without
\* asking the service.
C12_KeywordPrecedence ==
    op.name \in C12_Classifying =>
        LET found == ArticleOf(op, articles)
        IN  /\ found = None => op.external = << >>
            /\ found /= None =>
                   /\ \A i \in 1..Len(op.external) :
                          ~ C12_KeywordHit(op.external[i].category, found[1])
                   /\ ( /\ op.name = "extract_themes"
                        /\ Contains(Lower(found[1].title), C12_OpenSource) ) =>
                          /\ op.raised = ""
                          /\ \E i \in 1..Len(op.result) : op.result[i] = "open_source"
                          /\ op.external = << >>

\* extract_themes of "New Open Source LLM Released" returned open_source
C12_Witness ==
    /\ op.name = "extract_themes"
    /\ op.arg.article.title = NewOpenSource.title
    /\ op.raised = ""
    /\ \E i \in 1..Len(op.result) : op.result[i] = "open_source"

\* the reply carries a label
C13_Label(reply) == reply.t = "list" /\ reply.items /= << >>

\* what C13 asks of a classify_type call that returned these tags
C13_OneType(call, tags) ==
    /\ Len(tags) = 1
    /\ ( /\ ~ C12_KeywordHit("type", call.arg.article)
         /\ \A i \in 1..Len(call.external) : ~ C13_Label(call.external[i].reply) ) =>
           tags = << "news" >>

\* C13: whatever the external service does, extract_themes returns at most
\* 3 tags, assess_insights at most 2, and classify_type returns exactly one
\* tag, which is news when neither the keywords nor the service gave a label.
C13_TagCounts ==
    /\ op.name = "extract_themes" => Len(op.result) <= 3
    /\ op.name = "assess_insights" => Len(op.result) <= 2
    /\ op.name = "classify_type" => op.raised = "" /\ C13_OneType(op, op.result)

\* the fixed vocabulary of a preference category
C14_Vocabulary(category) ==
    LET table == CASE category = "theme"   -> THEME_KEYWORDS
                   [] category = "type"    -> TYPE_KEYWORDS
                   [] category = "insight" -> INSIGHT_KEYWORDS
    IN  {table[i][1] : i \in 1..Len(table)}

C14_CategoryOf(name) ==
    CASE name = "extract_themes"  -> "theme"
      [] name = "classify_type"   -> "type"
      [] name = "assess_insights" -> "insight"

\* C14: every tag a classifier returns is in the vocabulary of its category,
\* and every theme, type or insight key a learn call adds to the preference
\* store is in the vocabulary of its category.
C14_TagsInVocabulary ==
    [][ /\ ( /\ calls' = calls + 1
             /\ op'.name \in {"extract_themes", "classify_type", "assess_insights"} ) =>
               \A i \in 1..Len(op'.result) :
                   op'.result[i] \in C14_Vocabulary(C14_CategoryOf(op'.name))
        /\ Made("learn_from_rating") =>
               \A k \in DOMAIN user_preferences' \ DOMAIN op'.before :
                   k[1] /= "source" => k[2] \in C14_Vocabulary(k[1])
      ]_vars

\* the exchange with the service failed: the request raised, or the answer
\* is not JSON, or it is JSON but not an array
C15_Failed(reply) == reply.t /= "list"

\* C15: a failed exchange with the external service gives no tag for its
\* category (classify_type then returns news) and no classifier, learn or
\* score call raises because of it.
C15_FallbackFailureContained ==
    (op.name \in C12_Classifying
        /\ \E i \in 1..Len(op.external) : C15_Failed(op.external[i].reply)) =>
        /\ op.raised = ""
        /\ op.name = "classify_type" => op.result = << "news" >>
        /\ op.name \in {"extract_themes", "assess_insights"} => op.result = << >>

\* C16: a reset_preferences that returns leaves an empty preference store, the store stays
\* empty until a statement of a learning update, and every score computed from the empty
\* store returns (popularity or 0) * 0.001.
C16_ResetToBaseline ==
    [][ /\ (Made("reset_preferences") /\ op'.raised = "") =>
               user_preferences' = NoPreferences
        /\ ( /\ user_preferences = NoPreferences
             /\ workers' = workers ) =>
               user_preferences' = NoPreferences
        /\ ( /\ user_preferences = NoPreferences
             /\ Made("score_article")
             /\ op'.arg.preferences = None ) =>
               /\ op'.raised = ""
               /\ op'.result = FMulMilli(IF op'.arg.article.score = None THEN 0
                                         ELSE op'.arg.article.score[1])
      ]_vars

\* 2.1
C17_Least == [neg |-> FALSE, h |-> 1075, m |-> 3355443, l |-> 3355456]

\* C17: from an empty store, after ten learn(A, up) for the article "New
\* Open Source LLM Released" of hackernews with popularity 100, the source
\* preference of hackernews is weight 1.0 after 10 samples and the theme
\* preference of open_source has 10 samples, and the score of A against
\* these preferences is returned and is at least 2.1.
C17_TenLikes ==
    /\ (calls >= 10 /\ op.name \in {"learn_from_rating", "score_article"}) =>
           /\ << "source", "hackernews" >> \in DOMAIN user_preferences
           /\ user_preferences[<< "source", "hackernews" >>] = Row(One, 10)
           /\ << "theme", "open_source" >> \in DOMAIN user_preferences
           /\ user_preferences[<< "theme", "open_source" >>].sample_count = 10
    /\ (calls > 10 /\ op.name = "score_article") =>
           /\ op.raised = ""
           /\ FLe(C17_Least, op.result)

C18_TopN(call) == IF call.name = "generate_digest" THEN 50 ELSE 25

\* C18: the articles kept are the first 50 (digest) or 25 (LinkedIn) of the
\* candidates ranked descending by score: each candidate at most once, no
\* kept article behind one of higher score, articles of equal score in the
\* order they came in, no dropped article with a higher score than a kept
\* one, and a dropped article that ties with a kept one came in after it.
C18_RankAndTruncate ==
    op.name \in {"generate_digest", "cluster_and_select_articles"} =>
        LET scored  == op.arg.scored
            kept    == op.result
            ScoreAt(a) == scored[a][2]
            Kept    == {kept[i] : i \in 1..Len(kept)}
            Dropped == {scored[i][1] : i \in 1..Len(scored)} \ Kept
        IN  /\ Len(kept) = IF Len(scored) < C18_TopN(op) THEN Len(scored)
                           ELSE C18_TopN(op)
            /\ Kept \subseteq 1..Len(scored)
            /\ Cardinality(Kept) = Len(kept)
            /\ \A i, j \in 1..Len(kept) :
                   i < j => /\ ~ FLt(ScoreAt(kept[i]), ScoreAt(kept[j]))
                            /\ ScoreAt(kept[i]) = ScoreAt(kept[j]) => kept[i] < kept[j]
            /\ \A d \in Dropped, k \in Kept :
                   /\ ~ FLt(ScoreAt(k), ScoreAt(d))
                   /\ ScoreAt(k) = ScoreAt(d) => k < d

\* a digest of 51 candidates that drops one which ties with a kept one
C18_Witness ==
    /\ op.name = "generate_digest"
    /\ Len(op.arg.scored) = 51
    /\ Len(op.result) = 50
    /\ \E d \in 1..51 :
           /\ \A i \in 1..50 : op.result[i] /= d
           /\ op.arg.scored[d][2] = op.arg.scored[op.result[50]][2]
           /\ op.arg.scored[op.result[1]][2] /= op.arg.scored[d][2]

\* the ratings stored for an article
C19_RatingsOf(rows, article_id) ==
    {i \in 1..Len(rows) : rows[i].article_id = article_id}

\* C19: the rating store never holds two ratings of one article; a
\* save_rating call that is accepted leaves the article with the rating of
\* that call and every other article's rating as it was; no other call, and
\* no rejected save_rating call, changes a stored rating; and save_rating
\* never changes the preference store.
C19_LastWriteWins ==
    [][ /\ \A i, j \in 1..Len(article_ratings') :
               article_ratings'[i].article_id = article_ratings'[j].article_id => i = j
        /\ (Made("save_rating") /\ op'.raised = "") =>
               /\ \E i \in 1..Len(article_ratings') :
                      article_ratings'[i] = [article_id |-> op'.arg.article_id,
                                             rating |-> op'.arg.rating]
               /\ \A i \in 1..Len(article_ratings) :
                      article_ratings[i].article_id /= op'.arg.article_id =>
                          \E j \in 1..Len(article_ratings') :
                              article_ratings'[j] = article_ratings[i]
               /\ Len(article_ratings') =
                      Len(article_ratings)
                      + (IF C19_RatingsOf(article_ratings, op'.arg.article_id) = {}
                         THEN 1 ELSE 0)
        /\ ~ (Made("save_rating") /\ op'.raised = "") =>
               article_ratings' = article_ratings
        /\ Made("save_rating") => user_preferences' = user_preferences
      ]_vars

\* a dislike of the one stored article, saved by the third call
C19_Witness ==
    /\ op.name = "save_rating"
    /\ op.arg = [article_id |-> 1, rating |-> "down"]
    /\ calls = 3
    /\ user_preferences = NoPreferences
    /\ Len(articles) = 1
    /\ article_ratings = << [article_id |-> 1, rating |-> "down"] >>

-----------------------------------------------------------------------------
(* C21..C30                                                                *)

\* C21: with the store out of reach, learn_from_rating with an up or a down
\* rating, and score_article when it reads the store (no snapshot handed
\* in), raise the store's error to the caller; they do not return normally.
C21_StoreFailurePropagates ==
    (/\ op.name \in {"learn_from_rating", "score_article"}
     /\ ~op.arg.available
     /\ \/ op.name = "learn_from_rating" /\ op.arg.rating \in {"up", "down"}
        \/ op.name = "score_article" /\ op.arg.preferences = None)
    => op.raised = "OperationalError"

\* learn_from_rating(1, "up") ended in OperationalError with the store out
\* of reach
C21_Witness ==
    /\ op.name = "learn_from_rating"
    /\ ~op.arg.available
    /\ op.arg.rating = "up"
    /\ op.raised = "OperationalError"

\* C22: with a working store, generate_digest and
\* cluster_and_select_articles return normally whatever the service does:
\* no failure of a classification, synthesis or clustering request is
\* raised to the caller (a refusal of the SMTP server is not the service's).
C22_ServiceFailuresDegrade ==
    op.name \in {"generate_digest", "cluster_and_select_articles"}
    => op.raised \in {"", "SMTPException"}

\* one update applied to a row
C23_Applied(row, delta) ==
    Row(Clamp(FAdd(row.weight, delta)), row.sample_count + 1)

\* both calls are done, on the same key, which had a row when the first
\* began
C23_BothDone ==
    /\ Len(workers) = 2
    /\ workers[1].pc = "done" /\ workers[2].pc = "done"
    /\ workers[1].arg.category = workers[2].arg.category
    /\ workers[1].arg.key = workers[2].arg.key
    /\ << workers[1].arg.category, workers[1].arg.key >> \in DOMAIN workers[1].before

\* C23: after two update_preference calls on the same existing key, run
\* with their statements interleaved in any way, the row's weight is
\* within [-1.0, 1.0] and the row is what one of the updates alone, or both
\* in one of the two orders, make of the initial row.
C23_RaceOutcomes ==
    C23_BothDone =>
        LET k   == << workers[1].arg.category, workers[1].arg.key >>
            row == user_preferences[k]
            r0  == workers[1].before[k]
            a   == workers[1].arg.delta
            b   == workers[2].arg.delta
        IN  /\ FLe(MinusOne, row.weight) /\ FLe(row.weight, One)
            /\ row \in { C23_Applied(r0, a), C23_Applied(r0, b),
                         C23_Applied(C23_Applied(r0, a), b),
                         C23_Applied(C23_Applied(r0, b), a) }

\* an update was lost: the row is what the second call alone makes of the
\* initial row, one sample counted, and differs from both serial outcomes
C23_Witness ==
    /\ C23_BothDone
    /\ LET k   == << workers[1].arg.category, workers[1].arg.key >>
           row == user_preferences[k]
           r0  == workers[1].before[k]
           a   == workers[1].arg.delta
           b   == workers[2].arg.delta
       IN  /\ row = C23_Applied(r0, b)
           /\ row.sample_count = r0.sample_count + 1
           /\ row /= C23_Applied(C23_Applied(r0, a), b)
           /\ row /= C23_Applied(C23_Applied(r0, b), a)

\* the category a classifier asks the service about
C24_Asked(name) ==
    CASE name = "extract_themes"  -> "themes"
      [] name = "classify_type"   -> "type"
      [] name = "assess_insights" -> "insights"

\* C24: whenever the keyword pass of a classifier finds no tag for a stored
\* article, the classifier sends the classification request for its
\* category to the external service, also when the article's summary is
\* null.
C24_FallbackAsked ==
    (/\ op.name \in {"extract_themes", "classify_type", "assess_insights"}
     /\ ~ C12_KeywordHit(C24_Asked(op.name), op.arg.article)) =>
        \E i \in 1..Len(op.external) : op.external[i].category = C24_Asked(op.name)

\* the models a generate_digest call asked for the final synthesis, in the
\* order it asked them
C25_Tried(call) ==
    SelectSeq(call.external,
              LAMBDA x : x \in {DefaultModel, FALLBACK_MODELS[1], FALLBACK_MODELS[2]})

\* C25: the final synthesis asks the configured model and then the fallback
\* models in order; it returns the answer of the first model that
\* succeeds, and it raises only when every model of the list was asked and
\* failed, whatever the configured model is.
C25_FallbackOrder ==
    [][ (Made("generate_digest") /\ op'.external /= << >>) =>
          LET models   == << op'.arg.service.model >> \o FALLBACK_MODELS
              outcomes == op'.arg.service.outcomes
              tried    == C25_Tried(op')
          IN  /\ Len(tried) \in 1..Len(models)
              /\ \A i \in 1..Len(tried) : tried[i] = models[i]
              /\ \A i \in 1..(Len(tried) - 1) : outcomes[i] /= "ok"
              /\ op'.raised \in {"", "SMTPException"} =>
                     /\ outcomes[Len(tried)] = "ok"
                     /\ \A s \in 1..Len(workers) :
                            (workers[s].pc /= "done" /\ workers'[s].pc = "done") =>
                                digests'[workers'[s].digest_id].content.model
                                    = models[Len(tried)]
              /\ op'.raised \notin {"", "SMTPException"} =>
                     /\ Len(tried) = Len(models)
                     /\ \A i \in 1..Len(models) : outcomes[i] /= "ok"
      ]_vars

\* the email of digest id is with the emails the SMTP server took
C26_Sent(sent, id) == \E k \in 1..Len(sent) : sent[k] = id

\* the send of a run failed: the body of the with block raised, or the
\* reply to QUIT was not 221
C26_Failed(service) ==
    \/ service.smtp /= "ok"
    \/ service.smtp = "ok" /\ service.quit = "421"

\* C26: generate_digest saves the digest before any email is sent: the
\* server takes an email only from a run without dry_run whose digest is
\* stored, and the email carries that digest's id; a digest is saved without
\* emailed_at, and emailed_at is set only on a digest whose email the server
\* took, by the run that sent it and whose send raised nothing; the digest
\* of a dry run has no email and no emailed_at; a send that fails, be it a
\* refused email, a lost connection or a failed QUIT after the email was
\* taken, raises and leaves the saved digest unmarked, and a refused email
\* was not taken; with no article in the
\* period nothing is asked of the service, saved or sent.  This holds for
\* runs that overlap as for a run alone.
C26_SaveThenEmail ==
    [][ /\ Len(digests') \in {Len(digests), Len(digests) + 1}
        /\ \A i \in 1..Len(digests) :
               /\ digests'[i].content = digests[i].content
               /\ digests[i].emailed_at /= None => digests'[i] = digests[i]
               /\ digests'[i].emailed_at /= None => C26_Sent(outbox, i)
               /\ (digests[i].emailed_at = None /\ digests'[i].emailed_at /= None) =>
                      \E s \in 1..Len(workers) :
                          /\ workers[s].name = "generate_digest"
                          /\ workers[s].digest_id = i
                          /\ ~ workers[s].arg.dry_run
                          /\ ~ C26_Failed(workers[s].arg.service)
                          /\ workers'[s].pc = "done"
        /\ \A i \in (Len(digests) + 1)..Len(digests') :
               digests'[i].emailed_at = None /\ ~ C26_Sent(outbox', i)
        /\ outbox' /= outbox =>
               \E s \in 1..Len(workers) :
                   /\ workers[s].name = "generate_digest"
                   /\ workers[s].pc = "send"
                   /\ ~ workers[s].arg.dry_run
                   /\ workers[s].arg.service.smtp /= "SMTPException"
                   /\ workers[s].digest_id \in 1..Len(digests)
                   /\ digests[workers[s].digest_id].emailed_at = None
                   /\ outbox' = Append(outbox, workers[s].digest_id)
        /\ Made("generate_digest") =>
               \A s \in 1..Len(workers') :
                   (/\ workers'[s].pc = "done"
                    /\ s <= Len(workers) => workers[s] /= workers'[s]) =>
                       LET id == workers'[s].digest_id
                       IN  /\ op'.arg.dry_run =>
                                  /\ outbox' = outbox /\ ~ C26_Sent(outbox, id)
                                  /\ id > 0 => digests'[id].emailed_at = None
                           /\ (~ op'.arg.dry_run /\ op'.raised = "" /\ id > 0) =>
                                  /\ digests'[id].emailed_at /= None
                                  /\ C26_Sent(outbox, id)
                                  /\ ~ C26_Failed(op'.arg.service)
                           /\ (~ op'.arg.dry_run /\ id > 0
                                  /\ C26_Failed(op'.arg.service)) =>
                                  /\ op'.raised \in {"SMTPException",
                                                     "SMTPServerDisconnected",
                                                     "SMTPResponseException"}
                                  /\ digests'[id].emailed_at = None
                                  /\ outbox' = outbox
                                  /\ op'.arg.service.smtp = "SMTPException"
                                         => ~ C26_Sent(outbox, id)
                                  /\ op'.arg.service.smtp = "ok"
                                         => C26_Sent(outbox, id)
                           /\ get_articles_since(articles, op'.arg.since) = << >> =>
                                  /\ op'.raised = "" /\ id = 0
                                  /\ op'.external = << >>
                                  /\ digests' = digests /\ outbox' = outbox
      ]_vars

\* two runs that overlapped have both returned: the second saved its
\* digest, sent its email and marked the digest while the first waited on
\* the server; the server then took the email of the first and answered
\* its QUIT with an error, so the first raised and its digest, saved and
\* sent, is not marked
C26_Witness ==
    /\ op.name = "generate_digest"
    /\ ~ op.arg.dry_run
    /\ op.arg.service.smtp = "ok"
    /\ op.raised = "SMTPResponseException"
    /\ Len(digests) = 2
    /\ outbox = << 2, 1 >>
    /\ digests[1].emailed_at = None
    /\ digests[2].emailed_at /= None

\* C27: in the review screen, after any presses of Like, Dislike, Neutral,
\* Skip, Previous, Next and "Mark remaining as neutral", each followed by
\* its rerun, the stored review_index is a position of the list of unrated
\* articles whenever that list is not empty, so unrated[review_index] is
\* never out of range; no other session rates an article in between.
C27_ReviewIndexInRange ==
    (Len(workers) = 1 /\ workers[1].pc = "done") =>
        LET unrated == get_unrated_articles(articles, article_ratings, 1)
        IN  /\ unrated /= << >> =>
                  session.review_index >= 0 /\ session.review_index < Len(unrated)
            /\ op.name = "render_review_mode" => op.raised /= "IndexError"

\* the keyword pass finds the article a tag in each of the three categories
C28_KeywordTagged(article) ==
    /\ C12_KeywordHit("themes", article)
    /\ C12_KeywordHit("type", article)
    /\ C12_KeywordHit("insights", article)

\* score_article(article) read from a store
C28_ScoreFrom(stored, article) ==
    score_article(stored, article, None, ReplyError, ReplyError, ReplyError).value

\* C28: for a stored article whose tags all come from keywords, the score
\* of the article computed from the store after learn_from_rating(A, up) is
\* not lower than the score computed from the store before it, and after
\* learn_from_rating(A, down) it is not higher, whatever the store held.
C28_LikeNeverLowers ==
    [][ ( /\ Made("learn_from_rating")
          /\ op'.alone
          /\ op'.arg.rating \in {"up", "down"}
          /\ op'.arg.article_id \in 1..Len(articles)
          /\ C28_KeywordTagged(articles[op'.arg.article_id]) ) =>
            LET a      == articles[op'.arg.article_id]
                before == C28_ScoreFrom(op'.before, a)
                after  == C28_ScoreFrom(user_preferences', a)
            IN  /\ op'.raised = ""
                /\ op'.arg.rating = "up" => FLe(before, after)
                /\ op'.arg.rating = "down" => FLe(after, before)
      ]_vars

\* C29: the topics the handler of "AI Select" stores are the articles
\* the service selected: for every index i of selected_indices, the
\* article the dashboard takes at position i of its list is the article
\* the prompt showed to the service as item [i].
C29_SelectedAsPresented ==
    (/\ op.name = "render_linkedin_generator"
     /\ op.arg.button = "AI Select"
     /\ op.result.asked = "") =>
        \A k \in 1..Len(op.result.selected_indices) :
            LET i == op.result.selected_indices[k]
            IN  i < Len(op.result.articles) =>
                    /\ i < Len(op.result.presented)
                    /\ op.result.articles[i + 1] = op.result.presented[i + 1]
                    /\ \E t \in 1..Len(op.result.stored) :
                           op.result.stored[t] = Topic(op.result.presented[i + 1])

\* C30: two update_preference calls on the same key, run with their
\* statements interleaved in any way on an available store, both return
\* normally and leave exactly one row for the key, also when the key had
\* no row before.
C30_NoFailureInFlight ==
    (/\ Len(workers) = 2
     /\ workers[1].pc = "done" /\ workers[2].pc = "done"
     /\ workers[1].arg.category = workers[2].arg.category
     /\ workers[1].arg.key = workers[2].arg.key) =>
        /\ workers[1].raised = "" /\ workers[2].raised = ""
        /\ << workers[1].arg.category, workers[1].arg.key >> \in DOMAIN user_preferences

=============================================================================
